---- MODULE Spec2Model ----
(***************************************************************************)
(* Model of the acquisition engine of readarr_soul (package rsoul).        *)
(*                                                                         *)
(* The download monitor (rsoul/workflow.py monitor_downloads and the       *)
(* helpers of rsoul/download.py it calls) and the batch (run_workflow).    *)
(* There is a single control flow: wpc is the position of run_workflow and *)
(* pc the position of monitor_downloads.  The two services are the         *)
(* environment: the state of each transfer (remote), the outcome of each   *)
(* status query, of each re-submission, of each cancel request and of each *)
(* search are chosen non-deterministically.  The clock (now) is counted in *)
(* coarse units: one sleep lets it advance by zero or one unit.            *)
(*                                                                         *)
(* The search for one target (rsoul/search.py search_and_download with the *)
(* matcher of rsoul/match.py) is modelled step by step; the similarity     *)
(* scores difflib computes are inputs.                                     *)
(*                                                                         *)
(* SpecMonitor: monitor_downloads called on a grab list.                   *)
(* SpecWorkflow: run_workflow called on a list of download targets.        *)
(* SpecSearch: the search phase of run_workflow for one download target,   *)
(* over titles and blacklist settings.                                     *)
(* SpecMatch: search_and_download for one target, over quality profiles,   *)
(* ignored users, minimum ratios and search responses.                     *)
(***************************************************************************)
EXTENDS Integers, Sequences, FiniteSets, TLC

VARIABLES
    grab_list,        \* run_workflow/monitor_downloads: the list of active records (ids)
    rec,              \* the BookDownload dicts ever created, by id
    remote,           \* service side: state of the transfer tracked by file f of record r
    enqueue_calls,    \* service side: number of re-submissions received for file f of record r
    cancelled,        \* service side: the transfers a cancel request was issued for
    fault_budget,     \* service side: transfers it may still let end in a failure state
    dir_exists,       \* filesystem: whether the local directory of record r exists
    now,              \* time.time()
    failed_download,  \* monitor_downloads: local counter
    unfinished,       \* monitor_downloads: local counter of the current tick
    todo,             \* monitor_downloads: the rest of list(grab_list) of the current tick
    cur,              \* monitor_downloads: book_download, the record being visited (0: none)
    book_done,        \* monitor_downloads: locals set by downloads_all_done
    problems,
    remote_queued_count,
    k,                \* cancel_and_delete: index of the next file to cancel
    pc,               \* position of monitor_downloads
    observed_done,    \* history: the records a tick classified with every file
                      \* 'Completed, Succeeded' and left in the grab list
    targets,          \* run_workflow: download_targets
    remove_wanted_on_failure,  \* config, [Search Settings]
    target,           \* run_workflow: index of the current target
    wf_failed_download,        \* run_workflow: failed_download
    monitored,        \* book["monitored"] of each target
    upd_book_calls,   \* library service: the books upd_book was called for
    failure_file,     \* failure_list.txt: the book of each line
    tally,            \* the dict run_workflow returns
    wpc               \* position of run_workflow

VARIABLES
    book_title,       \* search_and_download: target["book"]["title"], a sequence of characters
    title_blacklist,  \* config [Search Settings] title_blacklist, a sequence of characters
    qprofile,         \* target["filetypes"]["items"]: the quality profile of the author
    ignored_users,    \* config [Search Settings] ignored_users, split on ','
    minimum_match_ratio,  \* config [Search Settings] minimum_filename_match_ratio
    searches,         \* service side: the searches issued, each with its query, the
                      \* state last reported for it and the responses fetched
    search_results,   \* search_and_download: the responses of the last search
    search_cache,     \* search_and_download: the directory listing cached for each user
    filetype_index,   \* search_and_download: position in allowed_filetypes
    attempts,         \* history: what happened for each file type tried
    delete_searches,  \* config [Slskd] delete_searches
    deleted,          \* service side: the searches searches.delete was called for
    polls,            \* search_and_download: state polls of the current search, modulo 2
    spc               \* position of search_and_download

search_vars == <<book_title, title_blacklist, qprofile, ignored_users,
                 minimum_match_ratio, searches, search_results, search_cache,
                 filetype_index, attempts, delete_searches, deleted, polls, spc>>

VARIABLES
    disable_sync,     \* readarr_disable_sync: config [Readarr] disable_sync
    disk_files,       \* filesystem: the files under the download directory, each with the
                      \* record it was downloaded for (0: a file of an earlier run)
    dirs,             \* filesystem: the directories of the download directory
    quarantine,       \* filesystem: the entries of failed_imports
    failed_imports,   \* process_imports: the list of failed imports
    idx,              \* process_imports: position in the list being iterated
    match,            \* process_imports: match, per record ("none": not validated)
    lookups,          \* library service: the answer to the lookup made for each record
    handled,          \* history: how the loop over the grab list left each record
    commands,         \* process_imports: the folders an import command was created for
    posted,           \* library service: the folders post_command was called for
    quarantine_moves, \* history: the moves into failed_imports
    io_faults,        \* environment: filesystem and library calls that raised so far
    ipc               \* position of process_imports

import_vars == <<disable_sync, disk_files, dirs, quarantine, failed_imports, idx, match,
                 lookups, handled, commands, posted, quarantine_moves, io_faults, ipc>>

VARIABLES
    submit_calls,     \* service side: the outcome of each call of transfers.enqueue
    listings,         \* service side: the outcome of each call of transfers.get_downloads
    attempt,          \* slskd_do_enqueue: attempt, the loop variable of range(4)
    tracked,          \* slskd_do_enqueue: the value returned (<<>>: None)
    grabbed,          \* download_book: the value returned ("none": not yet)
    dpc,              \* position of download_book
    fn_args,          \* a pure function under test: its arguments
    fn_ret            \* a pure function under test: <<>>, then <<the value returned>>

download_vars == <<submit_calls, listings, attempt, tracked, grabbed, dpc>>

pure_vars == <<fn_args, fn_ret>>

VARIABLES
    total_wanted,     \* get_books: totalRecords of the first answer
    wanted_records,   \* get_books: the records collected
    page,             \* get_books: the page asked for next, counted cyclically
    gpc               \* position of get_books

paging_vars == <<total_wanted, wanted_records, page, gpc>>

later_vars == <<download_vars, pure_vars, paging_vars>>

(* What monitor_downloads and run_workflow never touch *)
phases == <<search_vars, import_vars, later_vars>>

env == <<remote, enqueue_calls, cancelled, fault_budget, dir_exists>>
locals == <<cur, book_done, problems, remote_queued_count>>
batch == <<targets, remove_wanted_on_failure, target, wf_failed_download, monitored,
           upd_book_calls, failure_file, tally, wpc>>

vars == <<grab_list, rec, env, now, failed_download, unfinished, todo, locals, k, pc,
          observed_done, batch, phases>>

----------------------------------------------------------------------------
(* Bounds of the model *)

MaxErrors == 1           \* status queries that raise during one run
MaxFaults == 5           \* transfers the service lets end in a failure state (SpecMonitor)
MaxBatchFaults == 1      \* the same, during one run of SpecWorkflow
MaxTargets == 2          \* download targets of one run_workflow call
StalledTimeout == 2      \* config stalled_timeout, in clock units
RemoteQueueTimeout == 1  \* config remote_queue_timeout, in clock units
MaxTime == StalledTimeout

(* The grab lists monitor_downloads is entered with in SpecMonitor: the    *)
(* number of tracked files of each record (no record, one record of one or *)
(* two files, two records of one file).                                    *)
Shapes == {<<>>, <<1>>, <<2>>, <<1, 1>>}

(* Program constants *)

MaxRetry == 5

----------------------------------------------------------------------------
(* Transfer states reported by the service *)

None == "None"
Succeeded == "Completed, Succeeded"
Rejected == "Completed, Rejected"
Errored == "Completed, Errored"
QueuedRemotely == "Queued, Remotely"
InProgress == "InProgress"

ProblemStates ==
    {"Completed, Cancelled", "Completed, TimedOut", "Completed, Errored",
     "Completed, Rejected", "Completed, Aborted"}

RetryStates ==
    {"Completed, Cancelled", "Completed, TimedOut", "Completed, Errored",
     "Completed, Aborted", "Completed, Rejected"}

(* The service moves a transfer forward only: a completed transfer keeps its state. *)
NextRemote(s) ==
    CASE s = QueuedRemotely -> {QueuedRemotely, InProgress, Succeeded, Errored, Rejected}
      [] s = InProgress -> {InProgress, Succeeded, Errored}
      [] OTHER -> {s}

Min(a, b) == IF a < b THEN a ELSE b

RECURSIVE SeqSum(_)
SeqSum(s) == IF s = <<>> THEN 0 ELSE Head(s) + SeqSum(Tail(s))

Range(s) == {s[i] : i \in DOMAIN s}

(* Mutant: the record is removed from a copy, the list keeps it *)
RemoveFromCopy(s, x) == s

(* list.remove(x): drops the first occurrence of x *)
RECURSIVE Remove(_, _)
Remove(s, x) ==
    IF s = <<>> THEN <<>>
    ELSE IF Head(s) = x THEN Tail(s)
    ELSE <<Head(s)>> \o Remove(Tail(s), x)

----------------------------------------------------------------------------
(* rsoul/download.py *)

(* slskd_download_status: the status of every file is replaced by the      *)
(* service's answer, or by None when the query raises; ok[f] says whether   *)
(* the query for file f returned.                                           *)
slskd_download_status(files, answer, ok) ==
    [f \in DOMAIN files |->
        [files[f] EXCEPT !.status = IF ok[f] THEN answer[f] ELSE None]]

StatusOk(ok) == \A f \in DOMAIN ok : ok[f]

(* One error per file whose query failed *)
ErrorsPerFile(error_count, ok) ==
    error_count + Cardinality({f \in DOMAIN ok : ~ok[f]})

(* monitor_downloads: a tick on which a query of the record failed adds    *)
(* one to the record's error_count, however many of its queries failed     *)
ErrorCount(error_count, ok) ==
    IF StatusOk(ok) THEN error_count ELSE error_count + 1

(* downloads_all_done: (all_done, error_list, remote_queue) *)
AllDone(files) ==
    \A f \in DOMAIN files :
        files[f].status # None => files[f].status = Succeeded

ErrorList(files) ==
    SelectSeq([f \in DOMAIN files |-> f],
              LAMBDA f : files[f].status # None /\ files[f].status \in ProblemStates)

RemoteQueue(files) ==
    Cardinality({f \in DOMAIN files :
                    files[f].status # None /\ files[f].status = QueuedRemotely})

downloads_all_done(files) ==
    [all_done |-> AllDone(files),
     error_list |-> ErrorList(files),
     remote_queue |-> RemoteQueue(files)]

----------------------------------------------------------------------------
(* rsoul/workflow.py, monitor_downloads *)

(* Mutant: no stalled timeout *)
StalledNever(b) == FALSE

StalledTimedOut(b) == (now - b.count_start) >= StalledTimeout

(* Mutant: one file queued remotely is enough *)
RemoteQueueAnyQueued(b, queued) ==
    /\ queued >= 1
    /\ (now - b.count_start) >= RemoteQueueTimeout

RemoteQueueTimedOut(b, queued) ==
    /\ queued = Len(b.files)
    /\ (now - b.count_start) >= RemoteQueueTimeout

(* int(len(files) * 1.2) *)
RejectionLimit(b) == (Len(b.files) * 12) \div 10

(* Mutant: the retry count is not incremented *)
IncRetryForgotten(retry) == retry

(* line 103: track_file["retry"] += 1 *)
IncRetry(retry) == retry + 1

(* Mutant: off by one, a file is re-submitted once more *)
MayRetryOffByOne(retry) == retry <= MaxRetry

(* line 105: the file is re-submitted *)
MayRetry(retry) == retry < MaxRetry

(* index of the first tracked file with the file name of problem file p *)
TrackFile(b, p) ==
    LET same == {f \in DOMAIN b.files : b.files[f].filename = b.files[p].filename}
    IN  CHOOSE f \in same : \A g \in same : f <= g

(* One problem file of the loop of lines 77-125.  st is [book, abort_book,  *)
(* requeued]: requeued is the sequence of file indexes re-submitted so far, *)
(* with the outcome of each.  requeue_ok is the outcome of this             *)
(* re-submission if one is made.                                            *)
HandleProblem(st, p, nproblems, requeue_ok) ==
    LET b == st.book
        state == b.files[p].status
        all_rejected == state = Rejected /\ nproblems = Len(b.files)
        too_many == state = Rejected /\ ~all_rejected
                    /\ b.rejected_retries >= RejectionLimit(b)
        b1 == IF state = Rejected /\ ~all_rejected /\ ~too_many
              THEN [b EXCEPT !.rejected_retries = @ + 1] ELSE b
        t == TrackFile(b1, p)
        retry == IncRetry(b1.files[t].retry)
        b2 == [b1 EXCEPT !.files[t].retry = retry]
    IN  IF state \notin RetryStates THEN st
        ELSE IF all_rejected \/ too_many THEN [st EXCEPT !.abort_book = TRUE]
        ELSE IF ~MayRetry(retry) THEN [st EXCEPT !.book = b2, !.abort_book = TRUE]
        ELSE IF requeue_ok
             THEN [st EXCEPT !.book = [b2 EXCEPT !.files[t].id = @ + 1,
                                                 !.files[t].status = None],
                             !.requeued = Append(@, <<t, TRUE>>)]
             ELSE [st EXCEPT !.book = b2, !.abort_book = TRUE,
                             !.requeued = Append(@, <<t, FALSE>>)]

(* The loop over problems, with its break on abort_book *)
RECURSIVE HandleProblems(_, _, _, _)
HandleProblems(st, probs, i, requeue_ok) ==
    IF i > Len(probs) \/ st.abort_book THEN st
    ELSE HandleProblems(HandleProblem(st, probs[i], Len(probs), requeue_ok[i]),
                        probs, i + 1, requeue_ok)

(* Number of re-submissions of file f among requeued *)
Resubmissions(requeued, f) ==
    Cardinality({i \in DOMAIN requeued : requeued[i][1] = f})

(* The transfer tracked by file f after the re-submissions of this tick: a *)
(* successful re-submission makes it a new transfer, queued remotely.      *)
RemoteAfter(requeued, f, old) ==
    IF \E i \in DOMAIN requeued : requeued[i] = <<f, TRUE>> THEN QueuedRemotely ELSE old

----------------------------------------------------------------------------
(* Initial states: monitor_downloads entered with a grab list of at most   *)
(* MaxRecords records of 1..MaxFiles tracked files, as download_book makes *)
(* them (no status yet, counters zero, start time the creation time).      *)

FileNameSeqs(n) ==
    {s \in [1..n -> 1..n] : \A i \in 1..n : s[i] <= i /\ (i > 1 => s[i] >= s[i-1])}

NewFile(name) == [filename |-> name, id |-> 0, status |-> None, retry |-> 0]

(* download_book lines 127-140: folder_data *)
NewRecord(names, start, book, author) ==
    [files |-> [f \in DOMAIN names |-> NewFile(names[f])],
     bookId |-> book, author_name |-> author,
     count_start |-> start, rejected_retries |-> 0, error_count |-> 0]

(* search_and_download is not running *)
NotInSearch ==
    /\ book_title = <<>>
    /\ title_blacklist = <<>>
    /\ qprofile = <<>>
    /\ ignored_users = {}
    /\ minimum_match_ratio = 0
    /\ searches = <<>>
    /\ search_results = <<>>
    /\ search_cache = <<>>
    /\ filetype_index = 0
    /\ attempts = <<>>
    /\ delete_searches = FALSE
    /\ deleted = <<>>
    /\ polls = 0
    /\ spc = "none"

(* get_books is not running *)
NotInGetBooks ==
    /\ total_wanted = 0
    /\ wanted_records = <<>>
    /\ page = 0
    /\ gpc = "none"

(* download_book is not running and no function is under test *)
NotInLater ==
    /\ submit_calls = <<>>
    /\ listings = <<>>
    /\ attempt = 0
    /\ tracked = <<>>
    /\ grabbed = "none"
    /\ dpc = "none"
    /\ fn_args = <<>>
    /\ fn_ret = <<>>
    /\ NotInGetBooks

(* process_imports is not running *)
NotInImport ==
    /\ disable_sync = FALSE
    /\ disk_files = {}
    /\ dirs = {}
    /\ quarantine = {}
    /\ failed_imports = <<>>
    /\ idx = 0
    /\ match = <<>>
    /\ lookups = <<>>
    /\ handled = <<>>
    /\ commands = <<>>
    /\ posted = {}
    /\ quarantine_moves = <<>>
    /\ io_faults = 0
    /\ ipc = "none"

NotInBatch ==
    /\ targets = <<>>
    /\ remove_wanted_on_failure = FALSE
    /\ target = 0
    /\ wf_failed_download = 0
    /\ monitored = <<>>
    /\ upd_book_calls = {}
    /\ failure_file = <<>>
    /\ tally = [failed_download |-> 0, grabbed_count |-> 0]
    /\ wpc = "none"

InitMonitor ==
    /\ \E shape \in Shapes :
         \E names \in [DOMAIN shape -> UNION {FileNameSeqs(shape[r]) : r \in DOMAIN shape}] :
             /\ \A r \in DOMAIN shape : Len(names[r]) = shape[r]
             /\ grab_list = [i \in DOMAIN shape |-> i]
             /\ rec = [r \in DOMAIN shape |-> NewRecord(names[r], 0, r, 1)]
             /\ remote = [r \in DOMAIN shape |-> [f \in 1..shape[r] |-> QueuedRemotely]]
             /\ enqueue_calls = [r \in DOMAIN shape |-> [f \in 1..shape[r] |-> 0]]
             /\ dir_exists = [r \in DOMAIN shape |-> TRUE]
    /\ cancelled = {}
    /\ fault_budget = MaxFaults
    /\ now = 0
    /\ failed_download = 0
    /\ unfinished = 0
    /\ todo = <<>>
    /\ cur = 0
    /\ book_done = FALSE
    /\ problems = <<>>
    /\ remote_queued_count = 0
    /\ k = 0
    /\ pc = "start"
    /\ observed_done = {}
    /\ NotInBatch
    /\ NotInSearch
    /\ NotInImport
    /\ NotInLater

----------------------------------------------------------------------------
(* Actions of monitor_downloads *)

(* The locals of a visit are dead once the visit is over *)
NoVisit ==
    /\ cur' = 0
    /\ book_done' = FALSE
    /\ problems' = <<>>
    /\ remote_queued_count' = 0

(* lines 33-39: entry, and the top of the first tick *)
MonitorStart ==
    /\ pc = "start"
    /\ failed_download' = 0
    /\ IF grab_list = <<>>
       THEN pc' = "returned" /\ UNCHANGED <<unfinished, todo>>
       ELSE pc' = "visit" /\ unfinished' = 0 /\ todo' = grab_list
    /\ UNCHANGED <<grab_list, rec, env, now, locals, k>>
    /\ UNCHANGED <<observed_done, batch, phases>>

(* Number of transfers that enter a failure state between two answers *)
NewFaults(old, answer) ==
    Cardinality({f \in DOMAIN answer :
                    answer[f] \in ProblemStates /\ old[f] \notin ProblemStates})

TotalErrors == SeqSum([r \in DOMAIN rec |-> rec[r].error_count])

(* lines 42-50: the next record of the copy of the list; its statuses are *)
(* refreshed and classified                                               *)
Refresh ==
    /\ pc = "visit"
    /\ todo # <<>>
    /\ LET r == Head(todo)
           b == rec[r]
           n == Len(b.files)
       IN \E answer \in [1..n -> UNION {NextRemote(remote[r][f]) : f \in 1..n}],
             ok \in [1..n -> BOOLEAN] :
            /\ \A f \in 1..n : answer[f] \in NextRemote(remote[r][f])
            /\ NewFaults(remote[r], answer) <= fault_budget
            /\ StatusOk(ok) \/ TotalErrors < MaxErrors
            /\ fault_budget' = fault_budget - NewFaults(remote[r], answer)
            /\ remote' = [remote EXCEPT ![r] = answer]
            /\ LET b0 == [b EXCEPT !.files = slskd_download_status(b.files, answer, ok),
                                   !.error_count = ErrorCount(@, ok)]
                   d == downloads_all_done(b0.files)
               IN /\ rec' = [rec EXCEPT ![r] = b0]
                  /\ book_done' = d.all_done
                  /\ problems' = d.error_list
                  /\ remote_queued_count' = d.remote_queue
            /\ cur' = r
    /\ todo' = Tail(todo)
    /\ pc' = "decide"
    /\ UNCHANGED <<grab_list, enqueue_calls, cancelled, dir_exists, now,
                   failed_download, unfinished, k>>
    /\ UNCHANGED <<observed_done, batch, phases>>

(* lines 52-67: the two timeouts; the record goes to cancel_and_delete *)
Timeout ==
    /\ pc = "decide"
    /\ StalledTimedOut(rec[cur]) \/ RemoteQueueTimedOut(rec[cur], remote_queued_count)
    /\ pc' = "cancel"
    /\ k' = 1
    /\ UNCHANGED <<grab_list, rec, env, now, failed_download, unfinished, todo, locals>>
    /\ UNCHANGED <<observed_done, batch, phases>>

(* lines 69-132: no timeout; the unfinished count and the problems *)
Decide ==
    /\ pc = "decide"
    /\ ~(StalledTimedOut(rec[cur]) \/ RemoteQueueTimedOut(rec[cur], remote_queued_count))
    /\ unfinished' = IF book_done THEN unfinished ELSE unfinished + 1
    /\ \E requeue_ok \in [1..Len(problems) -> BOOLEAN] :
         LET n == Len(rec[cur].files)
             st == HandleProblems([book |-> rec[cur], abort_book |-> FALSE,
                                   requeued |-> <<>>],
                                  problems, 1, requeue_ok)
         IN /\ rec' = [rec EXCEPT ![cur] = st.book]
            /\ remote' = [remote EXCEPT ![cur] =
                   [f \in 1..n |-> RemoteAfter(st.requeued, f, @[f])]]
            /\ enqueue_calls' = [enqueue_calls EXCEPT ![cur] =
                   [f \in 1..n |-> @[f] + Resubmissions(st.requeued, f)]]
            /\ IF st.abort_book
               THEN pc' = "cancel" /\ k' = 1 /\ UNCHANGED <<locals, observed_done>>
               ELSE /\ pc' = "visit" /\ NoVisit /\ UNCHANGED k
                    /\ observed_done' =
                          IF \A f \in 1..n : rec[cur].files[f].status = Succeeded
                          THEN observed_done \cup {cur} ELSE observed_done
    /\ UNCHANGED <<grab_list, cancelled, fault_budget, dir_exists, now, failed_download, todo>>
    /\ UNCHANGED <<batch, phases>>

(* download.py lines 150-151: one cancel request of cancel_and_delete *)
Cancel ==
    /\ pc = "cancel"
    /\ k <= Len(rec[cur].files)
    /\ cancelled' = cancelled \cup {<<cur, k, rec[cur].files[k].id>>}
    /\ k' = k + 1
    /\ UNCHANGED <<grab_list, rec, remote, enqueue_calls, fault_budget, dir_exists, now,
                   failed_download, unfinished, todo, locals, pc>>
    /\ UNCHANGED <<observed_done, batch, phases>>

(* download.py line 151: the cancel request raises; nothing catches it *)
CancelRaises ==
    /\ pc = "cancel"
    /\ k <= Len(rec[cur].files)
    /\ pc' = "raised"
    /\ UNCHANGED <<grab_list, rec, env, now, failed_download, unfinished, todo,
                   locals, k>>
    /\ UNCHANGED <<observed_done, batch, phases>>

(* Mutant: the directory is deleted before the transfers are cancelled *)
CancelLoopSkipped(files, next) == next >= 1

(* download.py lines 150-153: the loop over the files is over *)
CancelLoopDone(files, next) == next > Len(files)

(* download.py lines 153-155, then workflow.py lines 56-58, 65-67, 130-132 *)
DeleteAndRemove ==
    /\ pc = "cancel"
    /\ CancelLoopDone(rec[cur].files, k)
    /\ dir_exists' = [dir_exists EXCEPT ![cur] = FALSE]
    /\ grab_list' = Remove(grab_list, cur)
    /\ failed_download' = failed_download + 1
    /\ pc' = "visit"
    /\ NoVisit
    /\ k' = 0
    /\ UNCHANGED <<rec, remote, enqueue_calls, cancelled, fault_budget, now, unfinished, todo>>
    /\ UNCHANGED <<observed_done, batch, phases>>

(* lines 134-139 and 36-39: the end of a tick and the top of the next one *)
TickEnd ==
    /\ pc = "visit"
    /\ todo = <<>>
    /\ IF unfinished = 0 \/ grab_list = <<>>
       THEN pc' = "returned" /\ UNCHANGED <<now, unfinished, todo>>
       ELSE /\ \E dt \in {0, 1} : now' = Min(now + dt, MaxTime)
            /\ unfinished' = 0
            /\ todo' = grab_list
            /\ pc' = "visit"
    /\ UNCHANGED <<grab_list, rec, env, failed_download, locals, k>>
    /\ UNCHANGED <<observed_done, batch, phases>>

NextMonitor ==
    \/ MonitorStart
    \/ Refresh
    \/ Timeout
    \/ Decide
    \/ Cancel
    \/ CancelRaises
    \/ DeleteAndRemove
    \/ TickEnd

SpecMonitor == InitMonitor /\ [][NextMonitor]_vars

----------------------------------------------------------------------------
(* rsoul/workflow.py, run_workflow *)

(* Author names of n targets: all the same, or in descending order *)
AuthorChoices(n) == {[i \in 1..n |-> 1], [i \in 1..n |-> n + 1 - i]}

InitWorkflowWith(faults, remove_wanted) ==
    /\ \E n \in 0..MaxTargets :
         \E authors \in AuthorChoices(n) :
            /\ targets = [i \in 1..n |-> [author_name |-> authors[i]]]
            /\ monitored = [i \in 1..n |-> TRUE]
    /\ remove_wanted_on_failure \in remove_wanted
    /\ target = 1
    /\ wf_failed_download = 0
    /\ upd_book_calls = {}
    /\ failure_file = <<>>
    /\ tally = [failed_download |-> 0, grabbed_count |-> 0]
    /\ wpc = "search"
    /\ grab_list = <<>>
    /\ rec = <<>>
    /\ remote = <<>>
    /\ enqueue_calls = <<>>
    /\ dir_exists = <<>>
    /\ cancelled = {}
    /\ fault_budget = faults
    /\ now = 0
    /\ failed_download = 0
    /\ unfinished = 0
    /\ todo = <<>>
    /\ cur = 0
    /\ book_done = FALSE
    /\ problems = <<>>
    /\ remote_queued_count = 0
    /\ k = 0
    /\ pc = "idle"
    /\ observed_done = {}
    /\ NotInSearch
    /\ NotInImport
    /\ NotInLater

InitWorkflow == InitWorkflowWith(MaxBatchFaults, BOOLEAN)

(* The ways search_and_download ends without raising (search.py 127-128,  *)
(* 211-223): the title is blacklisted, no file type gives a match, every  *)
(* enqueue of a match fails, or a match is enqueued by download_book.      *)
SearchOutcomes == {"blacklisted", "no_match", "enqueue_failed", "enqueued"}

(* workflow.py lines 157-162: search_and_download for the current target *)
SearchAndDownload ==
    /\ wpc = "search"
    /\ target <= Len(targets)
    /\ \E outcome \in SearchOutcomes, dt \in {0, 1} :
         /\ now' = IF outcome = "blacklisted" THEN now ELSE Min(now + dt, MaxTime)
         /\ IF outcome = "enqueued"
            THEN /\ rec' = Append(rec, NewRecord(<<1>>, now', target,
                                                 targets[target].author_name))
                 /\ grab_list' = Append(grab_list, Len(rec) + 1)
                 /\ remote' = Append(remote, <<QueuedRemotely>>)
                 /\ enqueue_calls' = Append(enqueue_calls, <<0>>)
                 /\ dir_exists' = Append(dir_exists, TRUE)
                 /\ target' = target + 1
                 /\ wpc' = "search"
            ELSE /\ wpc' = "failed"
                 /\ UNCHANGED <<rec, grab_list, remote, enqueue_calls, dir_exists, target>>
    /\ UNCHANGED <<cancelled, fault_budget, failed_download, unfinished, todo, locals,
                   k, pc, targets, remove_wanted_on_failure, wf_failed_download,
                   monitored, upd_book_calls, failure_file, tally>>
    /\ UNCHANGED <<observed_done, phases>>

(* search.py lines 137-187, 218, 222: a call to the file-sharing service *)
(* raises during the search; nothing catches it                         *)
SearchRaises ==
    /\ wpc = "search"
    /\ target <= Len(targets)
    /\ wpc' = "raised"
    /\ UNCHANGED <<grab_list, rec, env, now, failed_download, unfinished, todo, locals,
                   k, pc, targets, remove_wanted_on_failure, target,
                   wf_failed_download, monitored, upd_book_calls, failure_file, tally>>
    /\ UNCHANGED <<observed_done, phases>>

(* workflow.py lines 164-181: the target was not grabbed *)
GrabFailed ==
    /\ wpc = "failed"
    /\ IF remove_wanted_on_failure
       THEN /\ monitored' = [monitored EXCEPT ![target] = FALSE]
            /\ upd_book_calls' = upd_book_calls \cup {target}
            /\ failure_file' = Append(failure_file, target)
       ELSE UNCHANGED <<monitored, upd_book_calls, failure_file>>
    /\ wf_failed_download' = wf_failed_download + 1
    /\ target' = target + 1
    /\ wpc' = "search"
    /\ UNCHANGED <<grab_list, rec, env, now, failed_download, unfinished, todo, locals,
                   k, pc, targets, remove_wanted_on_failure, tally>>
    /\ UNCHANGED <<observed_done, phases>>

(* workflow.py lines 167-170: get_edition or upd_book raises *)
GrabFailedRaises ==
    /\ wpc = "failed"
    /\ remove_wanted_on_failure
    /\ monitored' = [monitored EXCEPT ![target] = FALSE]
    /\ wpc' = "raised"
    /\ UNCHANGED <<grab_list, rec, env, now, failed_download, unfinished, todo, locals,
                   k, pc, targets, remove_wanted_on_failure, target,
                   wf_failed_download, upd_book_calls, failure_file, tally>>
    /\ UNCHANGED <<observed_done, phases>>

(* workflow.py lines 183-184: the call of monitor_downloads *)
CallMonitor ==
    /\ wpc = "search"
    /\ target > Len(targets)
    /\ wpc' = "monitor"
    /\ pc' = "start"
    /\ UNCHANGED <<grab_list, rec, env, now, failed_download, unfinished, todo, locals,
                   k, targets, remove_wanted_on_failure, target, wf_failed_download,
                   monitored, upd_book_calls, failure_file, tally>>
    /\ UNCHANGED <<observed_done, phases>>

(* postprocess.py line 63: grab_list.sort(key=author_name), a stable sort *)
RECURSIVE InsertByAuthor(_, _)
InsertByAuthor(s, r) ==
    IF s = <<>> THEN <<r>>
    ELSE IF rec[Head(s)].author_name <= rec[r].author_name
         THEN <<Head(s)>> \o InsertByAuthor(Tail(s), r)
         ELSE <<r>> \o s

RECURSIVE SortByAuthor(_)
SortByAuthor(s) ==
    IF s = <<>> THEN <<>>
    ELSE InsertByAuthor(SortByAuthor(SubSeq(s, 1, Len(s) - 1)), s[Len(s)])

(* Mutant: the aborts of the monitor are not counted *)
SearchFailuresOnly(in_search, in_monitor) == in_search

(* workflow.py line 184: failed_download += monitor_downloads(...) *)
TotalFailed(in_search, in_monitor) == in_search + in_monitor

(* workflow.py lines 184-192: monitor_downloads returned; process_imports *)
(* (which sorts the list unless sync is disabled), the clean-up, the tally *)
ReturnTally ==
    /\ wpc = "monitor"
    /\ pc = "returned"
    /\ wf_failed_download' = TotalFailed(wf_failed_download, failed_download)
    /\ \E readarr_disable_sync \in BOOLEAN :
         grab_list' = IF readarr_disable_sync THEN grab_list ELSE SortByAuthor(grab_list)
    /\ tally' = [failed_download |-> wf_failed_download', grabbed_count |-> Len(grab_list')]
    /\ wpc' = "returned"
    /\ UNCHANGED <<rec, env, now, failed_download, unfinished, todo, locals, k, pc,
                   targets, remove_wanted_on_failure, target, monitored,
                   upd_book_calls, failure_file>>
    /\ UNCHANGED <<observed_done, phases>>

(* workflow.py line 184: the exception of monitor_downloads leaves run_workflow *)
MonitorUnwinds ==
    /\ wpc = "monitor"
    /\ pc = "raised"
    /\ wpc' = "raised"
    /\ UNCHANGED <<grab_list, rec, env, now, failed_download, unfinished, todo, locals,
                   k, pc, targets, remove_wanted_on_failure, target,
                   wf_failed_download, monitored, upd_book_calls, failure_file, tally>>
    /\ UNCHANGED <<observed_done, phases>>

NextWorkflow ==
    \/ SearchAndDownload
    \/ SearchRaises
    \/ GrabFailed
    \/ GrabFailedRaises
    \/ CallMonitor
    \/ MonitorStart
    \/ Refresh
    \/ Timeout
    \/ Decide
    \/ Cancel
    \/ CancelRaises
    \/ DeleteAndRemove
    \/ TickEnd
    \/ ReturnTally
    \/ MonitorUnwinds

SpecWorkflow == InitWorkflow /\ [][NextWorkflow]_vars

----------------------------------------------------------------------------
(* rsoul/search.py and rsoul/match.py: the search for one target *)

(* Bounds *)

MaxScore == 2            \* similarity scores (final_ratio) range over 1..MaxScore

(* Text is a sequence of one-character strings *)

Lower(c) == CASE c = "A" -> "a" [] c = "B" -> "b" [] c = "E" -> "e" [] OTHER -> c

LowerStr(s) == [i \in DOMAIN s |-> Lower(s[i])]

(* str.find: the first position of character c in s, 0 if there is none *)
Find(s, c) ==
    IF \E i \in DOMAIN s : s[i] = c
    THEN CHOOSE i \in DOMAIN s : s[i] = c /\ \A j \in 1..(i - 1) : s[j] # c
    ELSE 0

(* str.split(c) *)
RECURSIVE SplitOn(_, _)
SplitOn(s, c) ==
    IF Find(s, c) = 0 THEN <<s>>
    ELSE <<SubSeq(s, 1, Find(s, c) - 1)>> \o SplitOn(SubSeq(s, Find(s, c) + 1, Len(s)), c)

(* sub in s *)
Contains(s, sub) ==
    \E i \in 0..(Len(s) - Len(sub)) : SubSeq(s, i + 1, i + Len(sub)) = sub

(* str.strip() *)
RECURSIVE Strip(_)
Strip(s) ==
    IF s = <<>> THEN s
    ELSE IF Head(s) = " " THEN Strip(Tail(s))
    ELSE IF s[Len(s)] = " " THEN Strip(SubSeq(s, 1, Len(s) - 1))
    ELSE s

(* The titles, blacklist settings and file extensions of the model *)
Titles == {<<"A", "b">>, <<"a", " ", ":", "b">>, <<"a", ":", "a", ":", "b">>, <<":", "a">>}

Blacklists == {<<>>, <<",", "c", ",">>, <<"c", ",", "B">>}

Exts == {"epub", "mobi"}

Users == {1, 2}

(* The states searches.state reports *)
SearchStates == {"InProgress", "Completed"}

(* search.py lines 25-32 *)
is_blacklisted(title) ==
    \E i \in DOMAIN SplitOn(LowerStr(title_blacklist), ",") :
        LET word == SplitOn(LowerStr(title_blacklist), ",")[i]
        IN word # <<>> /\ Contains(LowerStr(title), word)

(* search.py lines 14-22 *)
Reverse(s) == [i \in DOMAIN s |-> s[Len(s) + 1 - i]]

(* str.lower() of a word: a quality name or a file extension *)
LowerWord(w) ==
    CASE w = "EPUB" -> "epub" [] w = "Mobi" -> "mobi" [] w = "MOBI" -> "mobi"
      [] w = "PDF" -> "pdf" [] OTHER -> w

(* Mutant: the names are taken as the profile writes them *)
NamesAsWritten(items) ==
    LET allowed == SelectSeq(items, LAMBDA item : item.allowed)
    IN [i \in DOMAIN allowed |-> allowed[i].name]

AllowedNames(items) ==
    LET allowed == SelectSeq(items, LAMBDA item : item.allowed)
    IN [i \in DOMAIN allowed |-> LowerWord(allowed[i].name)]

(* Mutant: the order of the quality profile is kept *)
ProfileOrderKept(items) == AllowedNames(items)

gen_allowed_filetypes(items) == Reverse(AllowedNames(items))

allowed_filetypes == gen_allowed_filetypes(qprofile)

(* search.py lines 133 and 159-160: the two queries *)
Query(author, text) == <<author, " - ", text>>

MainTitle(title) == Strip(SplitOn(title, ":")[1])

(* Mutant: the colon is not looked for *)
FallbackWhenEmpty(results, title) == Len(results) = 0

NeedsFallback(results, title) == Len(results) = 0 /\ Contains(title, <<":">>)

(* match.py lines 10-16 *)
verify_filetype(file, allowed_filetype) == file.ext = allowed_filetype

NoFile == [ext |-> "none", score |-> 0]

(* Mutant: a file with the score of the current match replaces it *)
ImprovesOrTies(final_ratio, best_match) == final_ratio >= best_match

(* match.py line 143 *)
Improves(final_ratio, best_match) == final_ratio > best_match

(* match.py lines 56-57 and 102-148: the loop over the filtered files; a  *)
(* file replaces the current match only if its score is strictly greater  *)
RECURSIVE BestMatch(_, _, _, _)
BestMatch(filtered, i, best_match, current_match) ==
    IF i > Len(filtered) THEN [best_match |-> best_match, current_match |-> current_match]
    ELSE IF Improves(filtered[i].score, best_match)
         THEN BestMatch(filtered, i + 1, filtered[i].score, i)
         ELSE BestMatch(filtered, i + 1, best_match, current_match)

(* Mutant: the peer is not checked *)
AcceptsAnyPeer(current_match, username, best_match) ==
    current_match # 0 /\ best_match >= minimum_match_ratio

(* match.py line 150 *)
Accepts(current_match, username, best_match) ==
    /\ current_match # 0
    /\ username \notin ignored_users
    /\ best_match >= minimum_match_ratio

(* match.py lines 31-160 *)
book_match(slskd_files, username, filetype) ==
    LET filtered_files == SelectSeq(slskd_files, LAMBDA f : verify_filetype(f, filetype))
        m == BestMatch(filtered_files, 1, 0, 0)
    IN IF filtered_files = <<>> THEN NoFile
       ELSE IF Accepts(m.current_match, username, m.best_match)
            THEN filtered_files[m.current_match]
            ELSE NoFile

(* search.py lines 194-209: dir_cache[username] has the file type *)
HasType(response, filetype) ==
    \E i \in DOMAIN response.files : verify_filetype(response.files[i], filetype)

(* search_cache[username][file_dir] = directory *)
Put(cache, username, directory) ==
    [u \in DOMAIN cache \cup {username} |->
        IF u = username THEN directory ELSE cache[u]]

(* search.py lines 35-104: the users are visited in the order of the      *)
(* responses; a directory listing that fails (listing_ok) skips the user, *)
(* one that succeeds is cached; a cached listing is handed over as a deep *)
(* copy, a listing just fetched (fetched) as the cached object itself.    *)
(* The listing of a user holds the files of the user's search response.   *)
RECURSIVE check_for_match(_, _, _, _)
check_for_match(i, cache, listing_ok, filetype) ==
    IF i > Len(search_results)
    THEN [found |-> FALSE, username |-> 0, file |-> NoFile, cache |-> cache,
          fetched |-> FALSE]
    ELSE LET response == search_results[i]
             username == response.username
             miss == username \notin DOMAIN cache
             directory == IF miss THEN response.files ELSE cache[username]
             cache1 == IF miss THEN Put(cache, username, directory) ELSE cache
         IN IF ~HasType(response, filetype)
            THEN check_for_match(i + 1, cache, listing_ok, filetype)
            ELSE IF miss /\ ~listing_ok[username]
            THEN check_for_match(i + 1, cache, listing_ok, filetype)
            ELSE IF book_match(directory, username, filetype) # NoFile
            THEN [found |-> TRUE, username |-> username,
                  file |-> book_match(directory, username, filetype),
                  cache |-> cache1, fetched |-> miss]
            ELSE check_for_match(i + 1, cache1, listing_ok, filetype)

(* The inputs of the model *)
Files == [ext : Exts, score : 1..MaxScore]

FileLists == {<<f>> : f \in Files} \cup {<<f, g>> : f \in Files, g \in Files}

Responses ==
    {<<>>}
    \cup {<<[username |-> 1, files |-> fl]>> : fl \in FileLists}
    \cup {<<[username |-> 1, files |-> fl], [username |-> 2, files |-> <<f>>]>> :
            fl \in FileLists, f \in Files}

QProfiles ==
    {items \in {<<[name |-> a, allowed |-> x], [name |-> b, allowed |-> y]>> :
                    a \in Exts, b \in Exts, x \in BOOLEAN, y \in BOOLEAN} :
        items[1].name # items[2].name}

IgnoredSets == {{}, {1}, {2}}

InitSearchWith(titles, blacklists, profiles, ignored, ratios, remove_wanted, deletes) ==
    /\ book_title \in titles
    /\ title_blacklist \in blacklists
    /\ qprofile \in profiles
    /\ ignored_users \in ignored
    /\ minimum_match_ratio \in ratios
    /\ searches = <<>>
    /\ search_results = <<>>
    /\ search_cache = <<>>
    /\ filetype_index = 0
    /\ attempts = <<>>
    /\ delete_searches \in deletes
    /\ deleted = <<>>
    /\ polls = 0
    /\ spc = "start"
    /\ targets = <<[author_name |-> 1]>>
    /\ monitored = <<TRUE>>
    /\ remove_wanted_on_failure \in remove_wanted
    /\ target = 1
    /\ wf_failed_download = 0
    /\ upd_book_calls = {}
    /\ failure_file = <<>>
    /\ tally = [failed_download |-> 0, grabbed_count |-> 0]
    /\ wpc = "search"
    /\ grab_list = <<>>
    /\ rec = <<>>
    /\ remote = <<>>
    /\ enqueue_calls = <<>>
    /\ dir_exists = <<>>
    /\ cancelled = {}
    /\ fault_budget = 0
    /\ now = 0
    /\ failed_download = 0
    /\ unfinished = 0
    /\ todo = <<>>
    /\ cur = 0
    /\ book_done = FALSE
    /\ problems = <<>>
    /\ remote_queued_count = 0
    /\ k = 0
    /\ pc = "idle"
    /\ observed_done = {}
    /\ NotInImport
    /\ NotInLater

(* SpecSearch: the titles and the blacklist settings vary; every file type *)
(* is allowed, no user is ignored and every score reaches the minimum     *)
InitSearch ==
    InitSearchWith(Titles, Blacklists,
                   {<<[name |-> "mobi", allowed |-> TRUE], [name |-> "epub", allowed |-> TRUE]>>},
                   {{}}, {1}, BOOLEAN, BOOLEAN)

(* SpecMatch: the quality profile, the ignored users and the minimum ratio *)
(* vary; the title has a colon and nothing is blacklisted                 *)
InitMatch ==
    InitSearchWith({<<"a", " ", ":", "b">>}, {<<>>}, QProfiles, IgnoredSets, 1..MaxScore,
                   {FALSE}, {TRUE})

monitor_vars == <<cancelled, fault_budget, now, failed_download, unfinished, todo, locals,
                  k, pc, observed_done>>

search_inputs == <<book_title, title_blacklist, qprofile, ignored_users, minimum_match_ratio,
                   delete_searches>>

(* search.py lines 127-128: the title is blacklisted *)
Blacklisted ==
    /\ wpc = "search" /\ spc = "start"
    /\ is_blacklisted(book_title)
    /\ spc' = "done"
    /\ wpc' = "failed"
    /\ UNCHANGED <<search_inputs, searches, search_results, search_cache, filetype_index,
                   attempts, deleted, polls>>
    /\ UNCHANGED <<grab_list, rec, remote, enqueue_calls, dir_exists, monitor_vars, import_vars, later_vars>>
    /\ UNCHANGED <<targets, remove_wanted_on_failure, target, wf_failed_download,
                   monitored, upd_book_calls, failure_file, tally>>

(* A search as the service knows it when search_text returns *)
NewSearch(query) == [query |-> query, state |-> "none", responses |-> <<>>]

(* search.py lines 133-145: the first search is issued *)
SearchText ==
    /\ wpc = "search" /\ spc = "start"
    /\ ~is_blacklisted(book_title)
    /\ searches' = Append(searches,
                          NewSearch(Query(targets[target].author_name, book_title)))
    /\ polls' = 0
    /\ spc' = "poll"
    /\ UNCHANGED <<search_inputs, search_results, search_cache, filetype_index, attempts,
                   deleted>>
    /\ UNCHANGED <<grab_list, rec, remote, enqueue_calls, dir_exists, monitor_vars, import_vars, later_vars, batch>>

(* Mutant: the responses are fetched after the first poll whatever it says *)
PollOnce(state) == TRUE

(* search.py lines 149-150 and 183-184: the loop is left *)
PollingOver(state) == state # "InProgress"

(* search.py lines 147-151 and 181-185: one poll of the state of the search; *)
(* the loop has no other exit than a state that is not 'InProgress'         *)
PollState ==
    /\ wpc = "search" /\ spc = "poll"
    /\ \E state \in SearchStates :
         /\ searches' = [searches EXCEPT ![Len(searches)].state = state]
         /\ spc' = IF PollingOver(state) THEN "fetch" ELSE "poll"
         /\ polls' = IF PollingOver(state) THEN 0 ELSE (polls + 1) % 2
    /\ UNCHANGED <<search_inputs, search_results, search_cache, filetype_index, attempts,
                   deleted>>
    /\ UNCHANGED <<grab_list, rec, remote, enqueue_calls, dir_exists, monitor_vars, import_vars, later_vars, batch>>

(* search.py lines 153 and 187: the responses of the search are fetched; *)
(* after the fallback search the matching starts (lines 190-211)         *)
SearchResponses ==
    /\ wpc = "search" /\ spc = "fetch"
    /\ \E responses \in Responses :
         /\ searches' = [searches EXCEPT ![Len(searches)].responses = responses]
         /\ search_results' = responses
    /\ IF Len(searches) = 1
       THEN spc' = "searched" /\ UNCHANGED filetype_index
       ELSE spc' = "match" /\ filetype_index' = 1
    /\ UNCHANGED <<search_inputs, search_cache, attempts, deleted, polls>>
    /\ UNCHANGED <<grab_list, rec, remote, enqueue_calls, dir_exists, monitor_vars, import_vars, later_vars, batch>>

(* Mutant: the search is deleted whatever the setting *)
DeleteAlways(setting, done, search) == Append(done, search)

(* search.py lines 165-166, 217-218, 221-222: searches.delete under the *)
(* delete_searches setting                                               *)
DeleteSearch(setting, done, search) == IF setting THEN Append(done, search) ELSE done

(* search.py lines 157-179: the fallback search on the main title is issued, *)
(* the original search deleted first                                         *)
FallbackSearch ==
    /\ wpc = "search" /\ spc = "searched"
    /\ NeedsFallback(search_results, book_title)
    /\ deleted' = DeleteSearch(delete_searches, deleted, Len(searches))
    /\ searches' = Append(searches,
                          NewSearch(Query(targets[target].author_name,
                                          MainTitle(book_title))))
    /\ polls' = 0
    /\ spc' = "poll"
    /\ UNCHANGED <<search_inputs, search_results, search_cache, filetype_index, attempts>>
    /\ UNCHANGED <<grab_list, rec, remote, enqueue_calls, dir_exists, monitor_vars, import_vars, later_vars, batch>>

(* search.py lines 157 and 190-211: no fallback, the results are used as they are *)
StartMatching ==
    /\ wpc = "search" /\ spc = "searched"
    /\ ~NeedsFallback(search_results, book_title)
    /\ spc' = "match"
    /\ filetype_index' = 1
    /\ UNCHANGED <<search_inputs, searches, search_results, search_cache, attempts,
                   deleted, polls>>
    /\ UNCHANGED <<grab_list, rec, remote, enqueue_calls, dir_exists, monitor_vars, import_vars, later_vars, batch>>

(* search.py lines 137-153, 166-187, 222: a call of the search service    *)
(* (search_text, state, search_responses, delete) raises                  *)
SearchTextRaises ==
    /\ wpc = "search"
    /\ \/ spc = "start" /\ ~is_blacklisted(book_title)
       \/ spc = "poll"
       \/ spc = "fetch"
       \/ spc = "searched" /\ NeedsFallback(search_results, book_title)
       \/ spc = "match" /\ filetype_index > Len(allowed_filetypes) /\ delete_searches
    /\ spc' = "raised"
    /\ wpc' = "raised"
    /\ UNCHANGED <<search_inputs, searches, search_results, search_cache, filetype_index,
                   attempts, deleted, polls>>
    /\ UNCHANGED <<grab_list, rec, remote, enqueue_calls, dir_exists, monitor_vars, import_vars, later_vars>>
    /\ UNCHANGED <<targets, remove_wanted_on_failure, target, wf_failed_download,
                   monitored, upd_book_calls, failure_file, tally>>

(* download.py lines 106-146 as called at search.py line 216: the record  *)
(* download_book appends when the enqueue succeeds                        *)
GrabbedBy(m, enqueue_ok) == m.found /\ enqueue_ok

(* download.py line 116, directory["files"] = [file]: the directory handed *)
(* to download_book is the cached object itself when check_for_match has   *)
(* just fetched it (search.py line 86), a deep copy otherwise (line 89)     *)
DirectoryAfterDownloadBook(m) ==
    IF m.found /\ m.fetched THEN Put(m.cache, m.username, <<m.file>>) ELSE m.cache

(* search.py lines 59-86: the users offering the file type whose directory *)
(* is cached or can be listed now                                         *)
Readable(listing_ok, filetype) ==
    {search_results[i].username : i \in
        {j \in DOMAIN search_results :
            /\ HasType(search_results[j], filetype)
            /\ \/ search_results[j].username \in DOMAIN search_cache
               \/ listing_ok[search_results[j].username]}}

(* search.py lines 211-219: one file type is tried; on success the search *)
(* is deleted (a delete that raises leaves the call with the record       *)
(* already in the grab list)                                              *)
TryFiletype ==
    /\ wpc = "search" /\ spc = "match"
    /\ filetype_index <= Len(allowed_filetypes)
    /\ \E listing_ok \in [Users -> BOOLEAN], enqueue_ok \in BOOLEAN, delete_ok \in BOOLEAN :
         LET filetype == allowed_filetypes[filetype_index]
             m == check_for_match(1, search_cache, listing_ok, filetype)
         IN /\ delete_ok \/ (GrabbedBy(m, enqueue_ok) /\ delete_searches)
            /\ search_cache' = DirectoryAfterDownloadBook(m)
            /\ attempts' = Append(attempts,
                                  [filetype |-> filetype,
                                   readable |-> Readable(listing_ok, filetype),
                                   cache |-> search_cache,
                                   found |-> m.found,
                                   username |-> m.username,
                                   file |-> m.file,
                                   enqueued |-> GrabbedBy(m, enqueue_ok)])
            /\ IF GrabbedBy(m, enqueue_ok)
               THEN /\ rec' = Append(rec, NewRecord(<<1>>, now, target,
                                                    targets[target].author_name))
                    /\ grab_list' = Append(grab_list, Len(rec) + 1)
                    /\ remote' = Append(remote, <<QueuedRemotely>>)
                    /\ enqueue_calls' = Append(enqueue_calls, <<0>>)
                    /\ dir_exists' = Append(dir_exists, TRUE)
                    /\ IF delete_ok
                       THEN /\ deleted' = DeleteSearch(delete_searches, deleted, Len(searches))
                            /\ target' = target + 1
                            /\ spc' = "done"
                            /\ UNCHANGED wpc
                       ELSE /\ spc' = "raised"
                            /\ wpc' = "raised"
                            /\ UNCHANGED <<deleted, target>>
                    /\ UNCHANGED filetype_index
               ELSE /\ filetype_index' = filetype_index + 1
                    /\ UNCHANGED <<rec, grab_list, remote, enqueue_calls, dir_exists,
                                   target, spc, wpc, deleted>>
    /\ UNCHANGED <<search_inputs, searches, search_results, polls>>
    /\ UNCHANGED <<monitor_vars, import_vars, later_vars, targets, remove_wanted_on_failure, wf_failed_download,
                   monitored, upd_book_calls, failure_file, tally>>

(* search.py lines 211 and 221-223: no file type is left *)
NoMatch ==
    /\ wpc = "search" /\ spc = "match"
    /\ filetype_index > Len(allowed_filetypes)
    /\ deleted' = DeleteSearch(delete_searches, deleted, Len(searches))
    /\ spc' = "done"
    /\ wpc' = "failed"
    /\ UNCHANGED <<search_inputs, searches, search_results, search_cache, filetype_index,
                   attempts, polls>>
    /\ UNCHANGED <<grab_list, rec, remote, enqueue_calls, dir_exists, monitor_vars, import_vars, later_vars>>
    /\ UNCHANGED <<targets, remove_wanted_on_failure, target, wf_failed_download,
                   monitored, upd_book_calls, failure_file, tally>>

NextSearch ==
    \/ Blacklisted
    \/ SearchText
    \/ PollState
    \/ SearchResponses
    \/ FallbackSearch
    \/ StartMatching
    \/ SearchTextRaises
    \/ TryFiletype
    \/ NoMatch
    \/ GrabFailed
    \/ GrabFailedRaises

SpecSearch == InitSearch /\ [][NextSearch]_vars

NextMatch ==
    \/ SearchText
    \/ PollState
    \/ SearchResponses
    \/ FallbackSearch
    \/ StartMatching
    \/ SearchTextRaises
    \/ TryFiletype
    \/ NoMatch

SpecMatch == InitMatch /\ [][NextMatch]_vars

----------------------------------------------------------------------------
(* Functions under test: the arguments are drawn by Init, one action calls *)
(* the function and keeps what it returns                                  *)

(* Everything but the function under test is idle *)
NothingRuns ==
    /\ grab_list = <<>>
    /\ rec = <<>>
    /\ remote = <<>>
    /\ enqueue_calls = <<>>
    /\ dir_exists = <<>>
    /\ cancelled = {}
    /\ fault_budget = 0
    /\ now = 0
    /\ failed_download = 0
    /\ unfinished = 0
    /\ todo = <<>>
    /\ cur = 0
    /\ book_done = FALSE
    /\ problems = <<>>
    /\ remote_queued_count = 0
    /\ k = 0
    /\ pc = "idle"
    /\ observed_done = {}
    /\ NotInBatch
    /\ NotInSearch
    /\ NotInImport
    /\ NotInGetBooks

outside_call == <<grab_list, rec, env, now, failed_download, unfinished, todo, locals, k,
                  pc, observed_done, batch, search_vars, import_vars, download_vars,
                  paging_vars>>

(* The quality profiles gen_allowed_filetypes is called with *)
ProfileNames == {"epub", "pdf", "mobi", "EPUB"}

ProfileItems == [name : ProfileNames, allowed : BOOLEAN]

Profiles ==
    {<<>>} \cup {<<a>> : a \in ProfileItems}
    \cup {<<a, b>> : a \in ProfileItems, b \in ProfileItems}
    \cup {<<a, b, c>> : a \in ProfileItems, b \in ProfileItems, c \in ProfileItems}

InitProfile ==
    /\ fn_args \in {[fn |-> "gen_allowed_filetypes", items |-> items] : items \in Profiles}
    /\ fn_ret = <<>>
    /\ submit_calls = <<>>
    /\ listings = <<>>
    /\ attempt = 0
    /\ tracked = <<>>
    /\ grabbed = "none"
    /\ dpc = "none"
    /\ NothingRuns

(* search.py lines 14-22: the call; the list returned is a new one *)
CallGenAllowedFiletypes ==
    /\ fn_args.fn = "gen_allowed_filetypes"
    /\ fn_ret = <<>>
    /\ fn_ret' = <<gen_allowed_filetypes(fn_args.items)>>
    /\ UNCHANGED fn_args
    /\ UNCHANGED outside_call

NextProfile == CallGenAllowedFiletypes

SpecProfile == InitProfile /\ [][NextProfile]_vars

(* The directories book_match is called with: up to three files, each with *)
(* its position as name                                                    *)
MaxCandidates == 3

Candidate(i) == [ext : Exts, score : 1..MaxScore, name : {i}]

RECURSIVE Directories(_)
Directories(n) ==
    IF n = 0 THEN {<<>>}
    ELSE {Append(d, f) : d \in Directories(n - 1), f \in Candidate(n)}

InitBookMatch ==
    /\ \E n \in 1..MaxCandidates :
         fn_args \in {[fn |-> "book_match", slskd_files |-> d, filetype |-> t] :
                        d \in Directories(n), t \in Exts}
    /\ fn_ret = <<>>
    /\ submit_calls = <<>>
    /\ listings = <<>>
    /\ attempt = 0
    /\ tracked = <<>>
    /\ grabbed = "none"
    /\ dpc = "none"
    /\ NothingRuns

(* match.py lines 31-160: the call, for a user that is not ignored *)
CallBookMatch ==
    /\ fn_args.fn = "book_match"
    /\ fn_ret = <<>>
    /\ fn_ret' = <<book_match(fn_args.slskd_files, 1, fn_args.filetype)>>
    /\ UNCHANGED fn_args
    /\ UNCHANGED outside_call

NextBookMatch == CallBookMatch

SpecBookMatch == InitBookMatch /\ [][NextBookMatch]_vars

----------------------------------------------------------------------------
(* rsoul/match.py: the score of a file name *)

(* Program constants, in hundredths *)

TitleBonus == 30
OverlapShare == 70

(* \w and \s over the characters of the model *)
WordChars == {"a", "b", "e", "A", "B", "E"}

IsSpace(c) == c = " "

(* match.py lines 74-78 and utils.py lines 38-42, one character: lower    *)
(* case, '_' to ' ', what is neither \w nor \s to ' '                      *)
NormalChar(c) ==
    IF Lower(c) = "_" THEN " "
    ELSE IF Lower(c) \notin WordChars /\ ~IsSpace(Lower(c)) THEN " "
    ELSE Lower(c)

(* Mutant: re.sub(r"\s\s", " "), one space for each pair of spaces *)
RECURSIVE CollapsePairs(_)
CollapsePairs(s) ==
    IF Len(s) <= 1 THEN s
    ELSE IF IsSpace(s[1]) /\ IsSpace(s[2])
         THEN <<" ">> \o CollapsePairs(SubSeq(s, 3, Len(s)))
         ELSE <<s[1]>> \o CollapsePairs(Tail(s))

(* match.py line 80 and utils.py line 44: re.sub(r"\s+", " ") *)
RECURSIVE Collapse(_)
Collapse(s) ==
    IF Len(s) <= 1 THEN s
    ELSE IF IsSpace(s[1]) /\ IsSpace(s[2]) THEN Collapse(Tail(s))
    ELSE <<s[1]>> \o Collapse(Tail(s))

(* match.py lines 71-82 and utils.py lines 35-46 *)
normalize_for_matching(text) ==
    Strip(Collapse([i \in DOMAIN text |-> NormalChar(text[i])]))

(* str.split(): the words between runs of white space *)
RECURSIVE Words(_)
Words(s) ==
    IF s = <<>> THEN <<>>
    ELSE IF IsSpace(Head(s)) THEN Words(Tail(s))
    ELSE LET stop == IF \E i \in DOMAIN s : IsSpace(s[i])
                     THEN Find(s, " ") ELSE Len(s) + 1
         IN <<SubSeq(s, 1, stop - 1)>> \o Words(SubSeq(s, stop, Len(s)))

(* " ".join(parts) *)
RECURSIVE Join(_)
Join(parts) ==
    IF parts = <<>> THEN <<>>
    ELSE IF Len(parts) = 1 THEN parts[1]
    ELSE parts[1] \o <<" ">> \o Join(Tail(parts))

(* parts[-n:] *)
LastParts(parts, n) ==
    IF n = 0 \/ n >= Len(parts) THEN parts
    ELSE SubSeq(parts, Len(parts) - n + 1, Len(parts))

(* difflib.SequenceMatcher.find_longest_match without junk: the longest   *)
(* common block, the earliest in a, then the earliest in b                *)
CommonBlocks(a, b) ==
    {x \in (1..Len(a)) \X (1..Len(b)) \X (1..Min(Len(a), Len(b))) :
        /\ x[1] + x[3] - 1 <= Len(a)
        /\ x[2] + x[3] - 1 <= Len(b)
        /\ SubSeq(a, x[1], x[1] + x[3] - 1) = SubSeq(b, x[2], x[2] + x[3] - 1)}

LongestMatch(a, b) ==
    CHOOSE x \in CommonBlocks(a, b) :
        \A y \in CommonBlocks(a, b) :
            \/ x[3] > y[3]
            \/ x[3] = y[3] /\ x[1] < y[1]
            \/ x[3] = y[3] /\ x[1] = y[1] /\ x[2] <= y[2]

(* difflib.SequenceMatcher.get_matching_blocks: the characters matched *)
RECURSIVE Matches(_, _)
Matches(a, b) ==
    IF CommonBlocks(a, b) = {} THEN 0
    ELSE LET x == LongestMatch(a, b)
         IN x[3] + Matches(SubSeq(a, 1, x[1] - 1), SubSeq(b, 1, x[2] - 1))
                 + Matches(SubSeq(a, x[1] + x[3], Len(a)), SubSeq(b, x[2] + x[3], Len(b)))

(* difflib.SequenceMatcher(None, a, b).ratio(): 2 * matches / total, as a fraction *)
Ratio(a, b) ==
    IF Len(a) + Len(b) = 0 THEN [num |-> 1, den |-> 1]
    ELSE [num |-> 2 * Matches(a, b), den |-> Len(a) + Len(b)]

(* Fractions *)
Less(p, q) == p.num * q.den < q.num * p.den

Same(p, q) == p.num * q.den = q.num * p.den

Larger(p, q) == IF Less(p, q) THEN q ELSE p

Sum(p, q) == [num |-> p.num * q.den + q.num * p.den, den |-> p.den * q.den]

Hundredths(n) == [num |-> n, den |-> 100]

(* match.py lines 19-28 *)
check_ratio(separator, ratio, book_filename, slskd_filename, minimum) ==
    IF Less(ratio, minimum)
    THEN Ratio(book_filename,
               Join(LastParts(SplitOn(slskd_filename, separator),
                              Len(Words(book_filename)))))
    ELSE ratio

(* match.py lines 85-100 *)
title_contained_in_filename(target_title, filename) ==
    LET normalized_target == normalize_for_matching(target_title)
        normalized_filename == normalize_for_matching(filename)
        target_words == Range(Words(normalized_target))
        filename_words == Range(Words(normalized_filename))
        overlap == Cardinality(target_words \cap filename_words)
    IN \/ Contains(normalized_filename, normalized_target)
       \/ 100 * overlap >= OverlapShare * Cardinality(target_words)

(* match.py lines 113-118 *)
patterns_to_try(title, author_name, filetype) ==
    << title \o <<" ", "-", " ">> \o author_name \o <<".">> \o filetype,
       author_name \o <<" ", "-", " ">> \o title \o <<".">> \o filetype,
       title \o <<".">> \o filetype,
       author_name \o <<" ">> \o title \o <<".">> \o filetype >>

(* match.py lines 122-138: the four ratios of one pattern *)
PatternRatio(pattern, slskd_filename, minimum) ==
    LET ratio == Ratio(pattern, slskd_filename)
        normalized_ratio == Ratio(normalize_for_matching(pattern),
                                  normalize_for_matching(slskd_filename))
        spaced == check_ratio(" ", ratio, pattern, slskd_filename, minimum)
        underscored == check_ratio("_", spaced, pattern, slskd_filename, minimum)
    IN Larger(Larger(ratio, normalized_ratio), Larger(spaced, underscored))

(* match.py lines 120-138 *)
RECURSIVE MaxRatio(_, _, _, _)
MaxRatio(patterns, i, slskd_filename, minimum) ==
    IF i > Len(patterns) THEN [num |-> 0, den |-> 1]
    ELSE Larger(PatternRatio(patterns[i], slskd_filename, minimum),
                MaxRatio(patterns, i + 1, slskd_filename, minimum))

(* match.py lines 107-109 and 141: the configured bonus is not looked at *)
FinalRatio(max_ratio, contained, configured_bonus) ==
    Sum(max_ratio, Hundredths(IF contained THEN TitleBonus ELSE 0))

(* match.py lines 103-141 *)
Score(title, author_name, filetype, slskd_filename, minimum) ==
    FinalRatio(MaxRatio(patterns_to_try(title, author_name, filetype), 1,
                        slskd_filename, minimum),
               title_contained_in_filename(title, slskd_filename), 0)

(* The inputs of the score of one file: the best pattern ratio in          *)
(* hundredths, whether the title is contained in the file name, and the    *)
(* [Search Settings] title_bonus and minimum_filename_match_ratio of the   *)
(* configuration file                                                      *)
PatternRatios == 0..100

ConfiguredBonuses == {20, 30}

InitFinalRatio ==
    /\ fn_args \in [fn : {"final_ratio"}, max_ratio : PatternRatios, contained : BOOLEAN,
                    title_bonus : ConfiguredBonuses, minimum : {50}]
    /\ fn_ret = <<>>
    /\ submit_calls = <<>>
    /\ listings = <<>>
    /\ attempt = 0
    /\ tracked = <<>>
    /\ grabbed = "none"
    /\ dpc = "none"
    /\ NothingRuns

(* match.py lines 106-109, 141 and 150: the score of one file and whether *)
(* it reaches the minimum ratio                                           *)
CallFinalRatio ==
    /\ fn_args.fn = "final_ratio"
    /\ fn_ret = <<>>
    /\ LET final_ratio == FinalRatio(Hundredths(fn_args.max_ratio), fn_args.contained,
                                     fn_args.title_bonus)
       IN fn_ret' = <<[final_ratio |-> final_ratio,
                       accepted |-> ~Less(final_ratio, Hundredths(fn_args.minimum))]>>
    /\ UNCHANGED fn_args
    /\ UNCHANGED outside_call

NextFinalRatio == CallFinalRatio

SpecFinalRatio == InitFinalRatio /\ [][NextFinalRatio]_vars

(* The file names Score is called with: a stem of up to MaxStem characters *)
(* and the extension of the requested type                                 *)
MaxStem == 3

StemChars == {"a", "A", "b", " ", "_"}

RECURSIVE Stems(_)
Stems(n) ==
    IF n = 0 THEN {<<>>}
    ELSE Stems(n - 1) \cup {Append(s, c) : s \in Stems(n - 1), c \in StemChars}

Filenames == {s \o <<".", "e">> : s \in Stems(MaxStem)}

(* str.upper() of one character *)
Upper(c) == CASE c = "a" -> "A" [] c = "b" -> "B" [] c = "e" -> "E" [] OTHER -> c

UpperStr(s) == [i \in DOMAIN s |-> Upper(s[i])]

(* str.replace(" ", "_") *)
Underscored(s) == [i \in DOMAIN s |-> IF s[i] = " " THEN "_" ELSE s[i]]

(* The same file name written otherwise: in another case, or with '_' for ' ' *)
Variants(s) == {UpperStr(s), LowerStr(s), Underscored(s)} \ {s}

InitScore ==
    /\ fn_args \in {[fn |-> "score", title |-> <<"a">>, author |-> <<"b">>,
                     filetype |-> <<"e">>, minimum |-> 50,
                     filename |-> f, variant |-> g] :
                      f \in Filenames, g \in UNION {Variants(h) : h \in Filenames}}
    /\ fn_args.variant \in Variants(fn_args.filename)
    /\ fn_ret = <<>>
    /\ submit_calls = <<>>
    /\ listings = <<>>
    /\ attempt = 0
    /\ tracked = <<>>
    /\ grabbed = "none"
    /\ dpc = "none"
    /\ NothingRuns

(* match.py lines 103-141: the score of the file name and of its variant *)
CallScore ==
    /\ fn_args.fn = "score"
    /\ fn_ret = <<>>
    /\ fn_ret' = <<[score |-> Score(fn_args.title, fn_args.author, fn_args.filetype,
                                    fn_args.filename, Hundredths(fn_args.minimum)),
                    variant_score |-> Score(fn_args.title, fn_args.author,
                                            fn_args.filetype, fn_args.variant,
                                            Hundredths(fn_args.minimum))]>>
    /\ UNCHANGED fn_args
    /\ UNCHANGED outside_call

NextScore == CallScore

SpecScore == InitScore /\ [][NextScore]_vars

(* The texts normalize_for_matching is called with *)
MaxText == 5

TextChars == {"a", "A", " ", "_", "-"}

RECURSIVE Texts(_)
Texts(n) ==
    IF n = 0 THEN {<<>>}
    ELSE Texts(n - 1) \cup {Append(s, c) : s \in Texts(n - 1), c \in TextChars}

InitNormalize ==
    /\ fn_args \in {[fn |-> "normalize_for_matching", text |-> s] : s \in Texts(MaxText)}
    /\ fn_ret = <<>>
    /\ submit_calls = <<>>
    /\ listings = <<>>
    /\ attempt = 0
    /\ tracked = <<>>
    /\ grabbed = "none"
    /\ dpc = "none"
    /\ NothingRuns

(* match.py lines 71-82 and utils.py lines 35-46: the call on the text *)
CallNormalize ==
    /\ fn_args.fn = "normalize_for_matching"
    /\ fn_ret = <<>>
    /\ fn_ret' = <<normalize_for_matching(fn_args.text)>>
    /\ UNCHANGED fn_args
    /\ UNCHANGED outside_call

(* The call on what the first call returned *)
CallNormalizeAgain ==
    /\ fn_args.fn = "normalize_for_matching"
    /\ Len(fn_ret) = 1
    /\ fn_ret' = Append(fn_ret, normalize_for_matching(fn_ret[1]))
    /\ UNCHANGED fn_args
    /\ UNCHANGED outside_call

NextNormalize == CallNormalize \/ CallNormalizeAgain

SpecNormalize == InitNormalize /\ [][NextNormalize]_vars

----------------------------------------------------------------------------
(* rsoul/download.py: download_book and slskd_do_enqueue *)

(* Bounds *)

MaxFound == 2            \* entries of the download listing that match the file

(* Program constants *)

MaxAttempts == 4

outside_download == <<failed_download, unfinished, todo, locals, k, pc, cancelled,
                      fault_budget, observed_done, batch, search_vars, import_vars,
                      paging_vars>>

(* The answers of transfers.get_downloads: it raises, or lists found *)
(* entries for the file that was submitted                            *)
ListingAnswers == [raised : {TRUE}, found : {0}] \cup [raised : {FALSE}, found : 0..MaxFound]

(* download.py lines 41-47: the tracked files, with the ids of the listing *)
TrackedFiles(found) == [i \in 1..found |-> [filename |-> 1, id |-> i]]

(* Mutant: one more attempt *)
OneMoreAttempt(a) == a < MaxAttempts + 1

(* download.py line 25: for attempt in range(4) *)
AttemptsLeft(a) == a < MaxAttempts

(* Mutant: the listing is polled after a submission that raised *)
PollAfterRaise == "poll"

(* download.py lines 19-21: return None *)
AfterRaise == "enqueued"

(* Mutant: the record is appended whatever the enqueue returned *)
AlwaysEnqueued(downloads) == TRUE

(* download.py line 126: if downloads *)
Enqueued(downloads) == downloads # <<>>

(* download.py lines 127-140: folder_data, its files being the tracked files *)
folder_data(downloads, start, book, author) ==
    [NewRecord([f \in DOMAIN downloads |-> downloads[f].filename], start, book, author)
       EXCEPT !.files = [f \in DOMAIN downloads |->
                           [NewFile(downloads[f].filename) EXCEPT !.id = downloads[f].id]]]

(* download_book is called with a grab list of no or one record *)
InitDownload ==
    /\ \E n \in {0, 1} :
         /\ rec = [r \in 1..n |-> NewRecord(<<1>>, 0, r, 1)]
         /\ grab_list = [r \in 1..n |-> r]
         /\ remote = [r \in 1..n |-> <<QueuedRemotely>>]
         /\ enqueue_calls = [r \in 1..n |-> <<0>>]
         /\ dir_exists = [r \in 1..n |-> TRUE]
    /\ fn_args = [fn |-> "download_book", grab_list |-> grab_list]
    /\ fn_ret = <<>>
    /\ submit_calls = <<>>
    /\ listings = <<>>
    /\ attempt = 0
    /\ tracked = <<>>
    /\ grabbed = "none"
    /\ dpc = "start"
    /\ now \in {0, 1}
    /\ cancelled = {}
    /\ fault_budget = 0
    /\ failed_download = 0
    /\ unfinished = 0
    /\ todo = <<>>
    /\ cur = 0
    /\ book_done = FALSE
    /\ problems = <<>>
    /\ remote_queued_count = 0
    /\ k = 0
    /\ pc = "idle"
    /\ observed_done = {}
    /\ NotInBatch
    /\ NotInSearch
    /\ NotInImport
    /\ NotInGetBooks

(* download.py lines 116-124 and 16-21: the files are submitted and the *)
(* call raises                                                          *)
EnqueueRaises ==
    /\ dpc = "start"
    /\ submit_calls' = Append(submit_calls, "raised")
    /\ dpc' = AfterRaise
    /\ UNCHANGED <<grab_list, rec, remote, enqueue_calls, dir_exists, now, listings,
                   attempt, tracked, grabbed, pure_vars>>
    /\ UNCHANGED outside_download

(* download.py lines 18, 23 and 59-60: the service answers with nothing *)
EnqueueRefused ==
    /\ dpc = "start"
    /\ submit_calls' = Append(submit_calls, "refused")
    /\ dpc' = "enqueued"
    /\ UNCHANGED <<grab_list, rec, remote, enqueue_calls, dir_exists, now, listings,
                   attempt, tracked, grabbed, pure_vars>>
    /\ UNCHANGED outside_download

(* download.py lines 18 and 23-25: the service accepts the files *)
EnqueueAccepted ==
    /\ dpc = "start"
    /\ submit_calls' = Append(submit_calls, "accepted")
    /\ attempt' = 0
    /\ dpc' = "poll"
    /\ UNCHANGED <<grab_list, rec, remote, enqueue_calls, dir_exists, now, listings,
                   tracked, grabbed, pure_vars>>
    /\ UNCHANGED outside_download

(* download.py lines 25-58: one attempt, after a sleep of one clock unit; *)
(* the files found are returned at once, after the last attempt None is   *)
PollListing ==
    /\ dpc = "poll"
    /\ AttemptsLeft(attempt)
    /\ now' = now + 1
    /\ \E answer \in ListingAnswers :
         /\ listings' = Append(listings, answer)
         /\ IF answer.found > 0
            THEN /\ tracked' = TrackedFiles(answer.found)
                 /\ dpc' = "enqueued"
                 /\ UNCHANGED attempt
            ELSE /\ attempt' = attempt + 1
                 /\ dpc' = IF AttemptsLeft(attempt') THEN "poll" ELSE "enqueued"
                 /\ UNCHANGED tracked
    /\ UNCHANGED <<grab_list, rec, remote, enqueue_calls, dir_exists, submit_calls,
                   grabbed, pure_vars>>
    /\ UNCHANGED outside_download

(* download.py lines 126-146: the record is appended, or False returned *)
DownloadBookReturns ==
    /\ dpc = "enqueued"
    /\ IF Enqueued(tracked)
       THEN /\ rec' = Append(rec, folder_data(tracked, now, Len(rec) + 1, 1))
            /\ grab_list' = Append(grab_list, Len(rec) + 1)
            /\ remote' = Append(remote, [f \in DOMAIN tracked |-> QueuedRemotely])
            /\ enqueue_calls' = Append(enqueue_calls, [f \in DOMAIN tracked |-> 0])
            /\ dir_exists' = Append(dir_exists, TRUE)
            /\ grabbed' = "True"
       ELSE /\ grabbed' = "False"
            /\ UNCHANGED <<grab_list, rec, remote, enqueue_calls, dir_exists>>
    /\ dpc' = "returned"
    /\ UNCHANGED <<now, submit_calls, listings, attempt, tracked, pure_vars>>
    /\ UNCHANGED outside_download

NextDownload ==
    \/ EnqueueRaises
    \/ EnqueueRefused
    \/ EnqueueAccepted
    \/ PollListing
    \/ DownloadBookReturns

SpecDownload == InitDownload /\ [][NextDownload]_vars

(* The call goes on as long as it has a step to take *)
LiveDownload == SpecDownload /\ WF_vars(NextDownload)

----------------------------------------------------------------------------
(* rsoul/postprocess.py: validation and organisation of the downloads *)

(* Bounds *)

MaxIoFaults == 1         \* filesystem and library calls that raise during one run

(* Program constants: the thresholds of the title validation, in hundredths *)

RawThreshold == 80
NormalizedThreshold == 85
WordThreshold == 70

(* utils.py lines 5-7 *)
IllegalChars == {"<", ">", ":", ".", "\"", "/", "\\", "|", "?", "*"}

sanitize_folder_name(folder_name) ==
    Strip(SelectSeq(folder_name, LAMBDA c : c \notin IllegalChars))

(* str(counter) *)
Digit(n) ==
    CASE n = 0 -> "0" [] n = 1 -> "1" [] n = 2 -> "2" [] n = 3 -> "3" [] n = 4 -> "4"
      [] n = 5 -> "5" [] n = 6 -> "6" [] n = 7 -> "7" [] n = 8 -> "8" [] OTHER -> "9"

RECURSIVE ToStr(_)
ToStr(n) == IF n < 10 THEN <<Digit(n)>> ELSE ToStr(n \div 10) \o <<Digit(n % 10)>>

(* postprocess.py lines 31 and 232: f"{name}_{counter}" *)
Suffixed(name, counter) == name \o <<"_">> \o ToStr(counter)

(* Mutant: the destination is the base name even if it exists *)
TargetOverwrites(name, existing) == name

(* postprocess.py lines 27-32 and 229-233: the first name that does not exist *)
RECURSIVE FirstFree(_, _, _)
FirstFree(name, counter, existing) ==
    IF Suffixed(name, counter) \notin existing THEN Suffixed(name, counter)
    ELSE FirstFree(name, counter + 1, existing)

QuarantineTarget(name, existing) ==
    IF name \notin existing THEN name ELSE FirstFree(name, 1, existing)

(* The authors of the model and the names of the source folders *)
AuthorText(a) == CASE a = 1 -> <<"A">> [] a = 2 -> <<"A", ".">> [] OTHER -> <<"B">>

Authors == {1, 2, 3}

FolderName(d) == <<"d", Digit(d)>>

(* postprocess.py line 88: filename.split(".")[-1].lower(); a file name is *)
(* the sequence of its parts between the dots                              *)
Extension(filename) == LowerWord(filename[Len(filename)])

(* Mutant: a value equal to the threshold passes *)
ReachesThreshold(value, threshold) == value >= threshold

(* postprocess.py line 150: the comparisons are strict *)
Exceeds(value, threshold) == value > threshold

(* Mutant: a file without ISBN is accepted (fail-open) *)
WithoutIsbnAccepted == TRUE

(* postprocess.py lines 116-118 *)
WithoutIsbn == FALSE

(* Mutant: a file of another type is rejected *)
OtherTypeRejected == FALSE

(* postprocess.py lines 164-166 *)
OtherType == TRUE

NoLookup == [called |-> FALSE, ok |-> FALSE, ids |-> <<>>]

(* postprocess.py lines 92-96: the lookup is made for a mobi or azw3 file  *)
(* whose header was read and holds an ISBN                                 *)
LookupCalled(extension, meta) ==
    extension \in {"azw3", "mobi"} /\ meta.read_ok /\ meta.isbn # 0

(* postprocess.py lines 92-122 *)
ValidateMobi(meta, book_lookup, book_id) ==
    IF ~meta.read_ok THEN FALSE
    ELSE IF meta.isbn = 0 THEN WithoutIsbn
    ELSE IF ~book_lookup.ok THEN FALSE
    ELSE IF Len(book_lookup.ids) > 0 THEN book_lookup.ids[1] = book_id
    ELSE FALSE

(* postprocess.py lines 143-147: intersection over union, compared in hundredths *)
WordSimilarityExceeds(word_intersection, word_union) ==
    IF word_union > 0 THEN Exceeds(100 * word_intersection, WordThreshold * word_union)
    ELSE Exceeds(0, WordThreshold)

(* postprocess.py lines 124-162 *)
ValidateEpub(meta) ==
    IF ~meta.read_ok THEN FALSE
    ELSE IF ~meta.title_found THEN FALSE
    ELSE \/ Exceeds(meta.diff, RawThreshold)
         \/ Exceeds(meta.normalized_diff, NormalizedThreshold)
         \/ WordSimilarityExceeds(meta.word_intersection, meta.word_union)

(* postprocess.py lines 88-166 *)
Validation(extension, meta, book_lookup, book_id) ==
    IF extension \in {"azw3", "mobi"} THEN ValidateMobi(meta, book_lookup, book_id)
    ELSE IF extension = "epub" THEN ValidateEpub(meta)
    ELSE OtherType

Verdict(accepted) == IF accepted THEN "True" ELSE "False"

(* The answers of the library service to a lookup *)
LookupAnswers(book_id) ==
    [called : {TRUE}, ok : BOOLEAN,
     ids : {<<>>, <<book_id>>, <<book_id + 1>>, <<book_id + 1, book_id>>}]

(* The inputs of the model: file names and what the metadata readers find *)
FileNames ==
    {<<"x", "epub">>, <<"x", "EPUB">>, <<"x", "mobi">>, <<"x", "azw3">>, <<"x", "pdf">>,
     <<"x", "epub", "txt">>}

Metas ==
    [read_ok : BOOLEAN, isbn : {0, 1}, title_found : BOOLEAN,
     diff : {RawThreshold, RawThreshold + 1},
     normalized_diff : {NormalizedThreshold, NormalizedThreshold + 1},
     word_intersection : {0, 7, 8}, word_union : {10}]
    \cup [read_ok : {TRUE}, isbn : {0}, title_found : {TRUE}, diff : {0},
          normalized_diff : {0}, word_intersection : {0}, word_union : {0}]

GoodMeta ==
    [read_ok |-> TRUE, isbn |-> 1, title_found |-> TRUE, diff |-> RawThreshold + 1,
     normalized_diff |-> 0, word_intersection |-> 0, word_union |-> 0]

BadMeta == [GoodMeta EXCEPT !.diff = RawThreshold]

AllKinds == [filename : FileNames, meta : Metas]

FewKinds ==
    {[filename |-> <<"x", "epub">>, meta |-> GoodMeta],
     [filename |-> <<"x", "epub">>, meta |-> BadMeta],
     [filename |-> <<"y", "pdf">>, meta |-> GoodMeta]}

(* What process_imports never touches *)
outside_import == <<rec, env, now, failed_download, unfinished, todo, locals, k, pc,
                    observed_done, batch, search_vars, later_vars>>

(* The entries of failed_imports that exist before the run *)
QuarantineStarts == {{}, {<<"A">>}, {<<"A">>, <<"A", "_", "1">>}}

(* Paths: the download directory is the working directory (line 59) *)
Download(name) == <<"download", name>>
Failed(name) == <<"failed_imports", name>>

Exists(path, filename) == \E f \in disk_files : f.at = path /\ f.filename = filename

TheFile(path, filename) == CHOOSE f \in disk_files : f.at = path /\ f.filename = filename

(* shutil.move of one file into a directory *)
MoveFile(files, f, to) == (files \ {f}) \cup {[f EXCEPT !.at = to]}

(* shutil.move of a directory: every file in it moves with it *)
MoveFolder(files, from, to) ==
    {IF f.at = from THEN [f EXCEPT !.at = to] ELSE f : f \in files}

(* postprocess.py lines 192-194 and 242-243: the folder is removed if it is empty *)
RemoveIfEmpty(ds, files, folder) ==
    IF \E f \in files : f.at = Download(folder) THEN ds ELSE ds \ {folder}

(* postprocess.py line 69 *)
AuthorDir(r) == sanitize_folder_name(AuthorText(rec[r].author_name))

SourceExists(r) == Exists(Download(FolderName(rec[r].dir)), rec[r].filename)

(* postprocess.py lines 83, 178, 200, 210, 214: one entry of failed_imports *)
Failure(r, author, reason) ==
    [folder |-> FolderName(rec[r].dir), filename |-> rec[r].filename,
     author |-> author, reason |-> reason, r |-> r]

(* Mutant: the first failure ends the loop over the grab list *)
StopAfterFailure(i) == Len(grab_list) + 1

(* postprocess.py lines 84, 179, 201, 210, 214: the loop goes on with the next record *)
AfterFailure(i) == i + 1

InitImportWith(counts, authors, kinds, starts) ==
    /\ \E n \in counts :
         \E author \in [1..n -> authors], kind \in [1..n -> kinds],
            present \in SUBSET (1..n), earlier \in SUBSET ({1} \cap (1..n)) :
           /\ rec = [r \in 1..n |->
                       [author_name |-> author[r], dir |-> r,
                        filename |-> kind[r].filename, bookId |-> r,
                        meta |-> kind[r].meta]]
           /\ grab_list = [r \in 1..n |-> r]
           /\ disk_files =
                {[at |-> Download(FolderName(r)), filename |-> kind[r].filename, r |-> r] :
                   r \in present}
                \cup {[at |-> Download(sanitize_folder_name(AuthorText(author[r]))),
                       filename |-> kind[r].filename, r |-> 0] : r \in earlier}
           /\ dirs = {FolderName(r) : r \in present}
                     \cup {sanitize_folder_name(AuthorText(author[r])) : r \in earlier}
           /\ match = [r \in 1..n |-> "none"]
           /\ lookups = [r \in 1..n |-> NoLookup]
           /\ handled = [r \in 1..n |-> "none"]
    /\ disable_sync \in BOOLEAN
    /\ quarantine \in starts
    /\ failed_imports = <<>>
    /\ idx = 0
    /\ commands = <<>>
    /\ posted = {}
    /\ quarantine_moves = <<>>
    /\ io_faults = 0
    /\ ipc = "start"
    /\ NotInBatch
    /\ NotInSearch
    /\ NotInLater
    /\ remote = <<>>
    /\ enqueue_calls = <<>>
    /\ dir_exists = <<>>
    /\ cancelled = {}
    /\ fault_budget = 0
    /\ now = 0
    /\ failed_download = 0
    /\ unfinished = 0
    /\ todo = <<>>
    /\ cur = 0
    /\ book_done = FALSE
    /\ problems = <<>>
    /\ remote_queued_count = 0
    /\ k = 0
    /\ pc = "returned"
    /\ observed_done = {}

(* SpecValidate: one record, every kind of file and metadata *)
InitValidate == InitImportWith({1}, {1}, AllKinds, {{}})

(* SpecImport: up to two records, a few kinds of file, authors whose *)
(* directories coincide or differ, entries already in failed_imports  *)
RecordCounts == {0, 1, 2}

InitImport == InitImportWith(RecordCounts, Authors, FewKinds, QuarantineStarts)

(* Mutant: the sync setting is tested after the list was sorted *)
SkippedAfterSort ==
    /\ ipc = "start"
    /\ disable_sync
    /\ grab_list' = SortByAuthor(grab_list)
    /\ ipc' = "returned"
    /\ UNCHANGED <<disable_sync, disk_files, dirs, quarantine, failed_imports,
                   idx, match, lookups, handled, commands, posted, quarantine_moves,
                   io_faults>>
    /\ UNCHANGED outside_import

(* postprocess.py lines 54-57 *)
ImportsSkipped ==
    /\ ipc = "start"
    /\ disable_sync
    /\ ipc' = "returned"
    /\ UNCHANGED <<grab_list, disable_sync, disk_files, dirs, quarantine, failed_imports,
                   idx, match, lookups, handled, commands, posted, quarantine_moves,
                   io_faults>>
    /\ UNCHANGED outside_import

(* postprocess.py lines 59-64 *)
StartImports ==
    /\ ipc = "start"
    /\ ~disable_sync
    /\ grab_list' = SortByAuthor(grab_list)
    /\ idx' = 1
    /\ ipc' = "record"
    /\ UNCHANGED <<disable_sync, disk_files, dirs, quarantine, failed_imports, match,
                   lookups, handled, commands, posted, quarantine_moves, io_faults>>
    /\ UNCHANGED outside_import

(* postprocess.py lines 80-84 *)
SourceMissing ==
    /\ ipc = "record"
    /\ idx <= Len(grab_list)
    /\ LET r == grab_list[idx] IN
         /\ ~SourceExists(r)
         /\ failed_imports' = Append(failed_imports, Failure(r, AuthorDir(r), "missing"))
         /\ handled' = [handled EXCEPT ![r] = "missing"]
    /\ idx' = AfterFailure(idx)
    /\ UNCHANGED <<grab_list, disable_sync, disk_files, dirs, quarantine, match, lookups,
                   commands, posted, quarantine_moves, io_faults, ipc>>
    /\ UNCHANGED outside_import

(* postprocess.py lines 86-166: the validation of the file of one record *)
Validate ==
    /\ ipc = "record"
    /\ idx <= Len(grab_list)
    /\ LET r == grab_list[idx]
           extension == Extension(rec[r].filename)
       IN /\ SourceExists(r)
          /\ \E book_lookup \in
                  IF LookupCalled(extension, rec[r].meta) THEN LookupAnswers(rec[r].bookId)
                  ELSE {NoLookup} :
               /\ lookups' = [lookups EXCEPT ![r] = book_lookup]
               /\ match' = [match EXCEPT ![r] =
                              Verdict(Validation(extension, rec[r].meta, book_lookup,
                                                 rec[r].bookId))]
    /\ ipc' = "organize"
    /\ UNCHANGED <<grab_list, disable_sync, disk_files, dirs, quarantine, failed_imports,
                   idx, handled, commands, posted, quarantine_moves, io_faults>>
    /\ UNCHANGED outside_import

(* postprocess.py lines 168-206: the file of an accepted record is moved *)
(* into the directory of its author                                       *)
Organize ==
    /\ ipc = "organize"
    /\ LET r == grab_list[idx]
           folder == FolderName(rec[r].dir)
           source == Download(folder)
           to == Download(AuthorDir(r))
           movable == SourceExists(r) /\ ~Exists(to, rec[r].filename)
       IN /\ match[r] = "True"
          /\ \E fault \in {"none", "mkdir", "move"} :
               /\ fault = "mkdir" => AuthorDir(r) \notin dirs /\ io_faults < MaxIoFaults
               /\ fault = "move" => movable /\ io_faults < MaxIoFaults
               /\ io_faults' = IF fault = "none" THEN io_faults ELSE io_faults + 1
               /\ IF fault = "mkdir"
                  THEN /\ failed_imports' =
                            Append(failed_imports, Failure(r, AuthorDir(r), "mkdir"))
                       /\ handled' = [handled EXCEPT ![r] = "mkdir failed"]
                       /\ idx' = AfterFailure(idx)
                       /\ UNCHANGED <<disk_files, dirs>>
                  ELSE IF fault = "move"
                  THEN /\ failed_imports' =
                            Append(failed_imports, Failure(r, AuthorDir(r), "move"))
                       /\ handled' = [handled EXCEPT ![r] = "move failed"]
                       /\ idx' = AfterFailure(idx)
                       /\ dirs' = dirs \cup {AuthorDir(r)}
                       /\ UNCHANGED disk_files
                  ELSE IF movable
                  THEN /\ disk_files' =
                            MoveFile(disk_files, TheFile(source, rec[r].filename), to)
                       /\ dirs' = RemoveIfEmpty(dirs \cup {AuthorDir(r)}, disk_files',
                                                folder)
                       /\ handled' = [handled EXCEPT ![r] = "moved"]
                       /\ idx' = idx + 1
                       /\ UNCHANGED failed_imports
                  ELSE /\ dirs' = dirs \cup {AuthorDir(r)}
                       /\ handled' = [handled EXCEPT ![r] = "left"]
                       /\ idx' = idx + 1
                       /\ UNCHANGED <<disk_files, failed_imports>>
    /\ ipc' = "record"
    /\ UNCHANGED <<grab_list, disable_sync, quarantine, match, lookups, commands, posted,
                   quarantine_moves>>
    /\ UNCHANGED outside_import

(* postprocess.py lines 208-210: the record failed the validation *)
ValidationFailed ==
    /\ ipc = "organize"
    /\ LET r == grab_list[idx] IN
         /\ match[r] = "False"
         /\ failed_imports' = Append(failed_imports, Failure(r, AuthorDir(r), "validation"))
         /\ handled' = [handled EXCEPT ![r] = "rejected"]
    /\ idx' = AfterFailure(idx)
    /\ ipc' = "record"
    /\ UNCHANGED <<grab_list, disable_sync, disk_files, dirs, quarantine, match, lookups,
                   commands, posted, quarantine_moves, io_faults>>
    /\ UNCHANGED outside_import

(* postprocess.py lines 212-214: an exception while the record is read, *)
(* the entry holds the author name as it is                               *)
UnexpectedError ==
    /\ ipc = "record"
    /\ idx <= Len(grab_list)
    /\ io_faults < MaxIoFaults
    /\ io_faults' = io_faults + 1
    /\ LET r == grab_list[idx] IN
         /\ failed_imports' =
              Append(failed_imports, Failure(r, AuthorText(rec[r].author_name), "error"))
         /\ handled' = [handled EXCEPT ![r] = "error"]
    /\ idx' = AfterFailure(idx)
    /\ UNCHANGED <<grab_list, disable_sync, disk_files, dirs, quarantine, match, lookups,
                   commands, posted, quarantine_moves, ipc>>
    /\ UNCHANGED outside_import

(* postprocess.py lines 66 and 217-220: the loop over the grab list is over *)
LoopDone ==
    /\ ipc = "record"
    /\ idx > Len(grab_list)
    /\ idx' = 1
    /\ ipc' = "quarantine"
    /\ UNCHANGED <<grab_list, disable_sync, disk_files, dirs, quarantine, failed_imports,
                   match, lookups, handled, commands, posted, quarantine_moves, io_faults>>
    /\ UNCHANGED outside_import

(* postprocess.py lines 220-246: one failed import is moved to failed_imports *)
Quarantine ==
    /\ ipc = "quarantine"
    /\ idx <= Len(failed_imports)
    /\ LET fi == failed_imports[idx]
           dest == QuarantineTarget(fi.author, quarantine)
           there == Exists(Download(fi.folder), fi.filename)
       IN \E fault \in {"none", "mkdir", "move"} :
            /\ fault = "mkdir" => io_faults < MaxIoFaults
            /\ fault = "move" => there /\ io_faults < MaxIoFaults
            /\ io_faults' = IF fault = "none" THEN io_faults ELSE io_faults + 1
            /\ IF fault = "mkdir"
               THEN UNCHANGED <<disk_files, dirs, quarantine, quarantine_moves>>
               ELSE /\ quarantine' = quarantine \cup {dest}
                    /\ quarantine_moves' =
                         Append(quarantine_moves,
                                [base |-> fi.author, dest |-> dest, before |-> quarantine,
                                 moved |-> there /\ fault = "none"])
                    /\ IF there /\ fault = "none"
                       THEN /\ disk_files' =
                                 MoveFile(disk_files,
                                          TheFile(Download(fi.folder), fi.filename),
                                          Failed(dest))
                            /\ dirs' = RemoveIfEmpty(dirs, disk_files', fi.folder)
                       ELSE UNCHANGED <<disk_files, dirs>>
    /\ idx' = idx + 1
    /\ UNCHANGED <<grab_list, disable_sync, failed_imports, match, lookups, handled,
                   commands, posted, ipc>>
    /\ UNCHANGED outside_import

(* The folders in the order os.walk lists them *)
RECURSIVE Listing(_)
Listing(S) ==
    IF S = {} THEN <<>>
    ELSE LET d == CHOOSE x \in S : TRUE IN <<d>> \o Listing(S \ {d})

(* postprocess.py lines 248-273 and 324-327: an import command is created *)
(* for every directory of the download directory except failed_imports     *)
SubmitImports ==
    /\ ipc = "quarantine"
    /\ idx > Len(failed_imports)
    /\ \E refused \in {{}} \cup {{d} : d \in dirs} :
         /\ refused # {} => io_faults < MaxIoFaults
         /\ io_faults' = IF refused = {} THEN io_faults ELSE io_faults + 1
         /\ posted' = dirs
         /\ commands' = Listing(dirs \ refused)
    /\ idx' = 1
    /\ ipc' = IF commands' = <<>> THEN "returned" ELSE "results"
    /\ UNCHANGED <<grab_list, disable_sync, disk_files, dirs, quarantine, failed_imports,
                   match, lookups, handled, quarantine_moves>>
    /\ UNCHANGED outside_import

(* postprocess.py lines 18-41 *)
move_failed_import(folder_name) ==
    LET dest == QuarantineTarget(folder_name, quarantine) IN
      IF folder_name \in dirs
      THEN /\ disk_files' = MoveFolder(disk_files, Download(folder_name), Failed(dest))
           /\ dirs' = dirs \ {folder_name}
           /\ quarantine' = quarantine \cup {dest}
           /\ quarantine_moves' =
                Append(quarantine_moves,
                       [base |-> folder_name, dest |-> dest, before |-> quarantine,
                        moved |-> TRUE])
      ELSE UNCHANGED <<disk_files, dirs, quarantine, quarantine_moves>>

(* postprocess.py lines 278-323: the result of one import command; the *)
(* folder of a failed import goes to failed_imports                      *)
ImportResult ==
    /\ ipc = "results"
    /\ idx <= Len(commands)
    /\ \E status \in {"completed", "failed", "unknown"} :
         IF status = "failed" THEN move_failed_import(commands[idx])
         ELSE UNCHANGED <<disk_files, dirs, quarantine, quarantine_moves>>
    /\ idx' = idx + 1
    /\ UNCHANGED <<grab_list, disable_sync, failed_imports, match, lookups, handled,
                   commands, posted, io_faults, ipc>>
    /\ UNCHANGED outside_import

(* postprocess.py lines 297-327: process_imports returns *)
ImportsReturn ==
    /\ ipc = "results"
    /\ idx > Len(commands)
    /\ ipc' = "returned"
    /\ UNCHANGED <<grab_list, disable_sync, disk_files, dirs, quarantine, failed_imports,
                   idx, match, lookups, handled, commands, posted, quarantine_moves,
                   io_faults>>
    /\ UNCHANGED outside_import

NextImport ==
    \/ ImportsSkipped
    \/ StartImports
    \/ SourceMissing
    \/ Validate
    \/ Organize
    \/ ValidationFailed
    \/ UnexpectedError
    \/ LoopDone
    \/ Quarantine
    \/ SubmitImports
    \/ ImportResult
    \/ ImportsReturn

SpecImport == InitImport /\ [][NextImport]_vars

SpecValidate == InitValidate /\ [][NextImport]_vars

----------------------------------------------------------------------------
(* Properties *)

InGrabList(r) == r \in Range(grab_list)

Removed(r) == r \in DOMAIN rec /\ ~InGrabList(r)

AllSucceeded(r) ==
    \A f \in DOMAIN rec[r].files : rec[r].files[f].status = Succeeded

AllCancelled(r) ==
    \A f \in DOMAIN rec[r].files : <<r, f, rec[r].files[f].id>> \in cancelled

Elapsed(r) == now - rec[r].count_start

(* C1: every record reaches a terminal outcome once and keeps it: a record *)
(* that a tick observed with all files 'Completed, Succeeded' is not        *)
(* aborted by a later tick (no cancel, no removal from the grab list), and  *)
(* a record that was aborted is not visited again.                          *)
C1_TerminalOutcomeKept ==
    /\ \A r \in observed_done : InGrabList(r) /\ ~(pc \in {"cancel", "raised"} /\ cur = r)
    /\ \A r \in DOMAIN rec : Removed(r) => r \notin Range(todo) /\ cur # r

(* C2: a failure confined to one wanted item or one download never        *)
(* unwinds the batch: no exception leaves monitor_downloads or            *)
(* run_workflow.                                                          *)
C2_FailuresStayLocal == pc # "raised" /\ wpc # "raised"

(* C3: a record visited when now - count_start >= stalled_timeout is, on   *)
(* that tick, sent to cancel_and_delete; every tracked transfer is         *)
(* cancelled, then the directory is deleted, the record leaves the grab    *)
(* list and the failure counter grows by exactly 1.                        *)
C3_StalledAbortsOnTick ==
    [][/\ (pc = "decide" /\ Elapsed(cur) >= StalledTimeout)
            => (pc' = "cancel" /\ cur' = cur /\ k' = 1)
       /\ (pc = "cancel" /\ Elapsed(cur) >= StalledTimeout)
            => \/ /\ pc' = "cancel" /\ cur' = cur /\ k' = k + 1
                  /\ <<cur, k, rec[cur].files[k].id>> \in cancelled'
               \/ /\ pc' = "visit"
                  /\ AllCancelled(cur)
                  /\ ~dir_exists'[cur]
                  /\ cur \notin Range(grab_list')
                  /\ failed_download' = failed_download + 1]_vars

C5_DoneIffAllSucceeded ==
    /\ pc = "decide" => (book_done <=> AllSucceeded(cur))
    /\ pc = "returned" => \A r \in Range(grab_list) : AllSucceeded(r)

(* C6: when monitor_downloads returns, a record whose files (one of them   *)
(* re-submitted after a failure) all report 'Completed, Succeeded' and     *)
(* whose stalled timeout has not elapsed is still in the grab list, is not *)
(* counted as failed, and the retry count of each of its files equals the  *)
(* number of its re-submissions.                                           *)
C6_RetriedRecordSucceeds ==
    pc = "returned" =>
        \A r \in DOMAIN rec :
            (AllSucceeded(r) /\ Elapsed(r) < StalledTimeout) =>
                /\ InGrabList(r)
                /\ failed_download = Cardinality({x \in DOMAIN rec : Removed(x)})
                /\ \A f \in DOMAIN rec[r].files :
                      /\ rec[r].files[f].retry = enqueue_calls[r][f]
                      /\ rec[r].files[f].retry = rec[r].files[f].id

C6_Witness ==
    /\ pc = "returned"
    /\ failed_download = 0
    /\ \E r \in Range(grab_list) :
         /\ Len(rec[r].files) = 2
         /\ AllSucceeded(r)
         /\ Elapsed(r) < StalledTimeout
         /\ rec[r].files[1].retry = 0
         /\ rec[r].files[2].retry = 1
         /\ enqueue_calls[r][2] = 1

(* C7: on a tick where every tracked file of a record is in a terminal-    *)
(* failure state and one of them is 'Completed, Rejected', the record is   *)
(* aborted on that tick: it goes to cancel_and_delete, leaves the grab     *)
(* list and is counted failed once.                                        *)
TotalRejection(r) ==
    /\ Len(problems) = Len(rec[r].files)
    /\ \E f \in DOMAIN rec[r].files : rec[r].files[f].status = Rejected

C7_TotalRejectionAborts ==
    [][/\ (pc = "decide" /\ TotalRejection(cur)) => (pc' = "cancel" /\ cur' = cur)
       /\ (pc = "cancel" /\ TotalRejection(cur))
            => \/ pc' = "cancel" /\ cur' = cur
               \/ /\ pc' = "visit"
                  /\ cur \notin Range(grab_list')
                  /\ failed_download' = failed_download + 1]_vars

(* C8: the failures counted so far plus the length of the grab list equal  *)
(* the length of the grab list at entry, and monitor_downloads returns     *)
(* only after a tick that counted no record unfinished, or with an empty   *)
(* grab list.                                                              *)
C8_CountMatchesRemovals ==
    /\ failed_download + Len(grab_list) = Len(rec)
    /\ failed_download = Cardinality({r \in DOMAIN rec : Removed(r)})
    /\ pc = "returned" => (unfinished = 0 \/ grab_list = <<>>)

C8_Witness ==
    /\ pc = "returned"
    /\ failed_download = 1
    /\ Len(grab_list) = 1
    /\ unfinished = 0

(* C9: the local directory of a record is deleted only after a cancel      *)
(* request was issued for every tracked transfer of the record.            *)
C9_CancelBeforeDelete ==
    \A r \in DOMAIN rec : ~dir_exists[r] => AllCancelled(r)

C9_Witness ==
    \E r \in DOMAIN rec :
        /\ ~dir_exists[r]
        /\ Len(rec[r].files) = 2
        /\ AllCancelled(r)
        /\ rec[r].files[1].id = 1

(* C10: when run_workflow returns, every item counted in failed_download   *)
(* was handled per configuration: with remove_wanted_on_failure its        *)
(* monitored flag is false, it was updated on the library service and has  *)
(* one line in the failure file; without it, no item is modified and       *)
(* nothing is written.                                                     *)
FailedTargets ==
    {i \in DOMAIN targets : ~\E r \in Range(grab_list) : rec[r].bookId = i}

FailureLines(i) == Cardinality({l \in DOMAIN failure_file : failure_file[l] = i})

C10_FailedItemsHandled ==
    wpc = "returned" =>
        /\ tally.failed_download = Cardinality(FailedTargets)
        /\ IF remove_wanted_on_failure
           THEN \A i \in FailedTargets :
                    ~monitored[i] /\ i \in upd_book_calls /\ FailureLines(i) = 1
           ELSE /\ \A i \in DOMAIN targets : monitored[i]
                /\ upd_book_calls = {}
                /\ failure_file = <<>>

(* C11: the file types are tried strictly in priority order (the allowed  *)
(* items of the quality profile, last item first); the search stops at the *)
(* first file type whose accepted match is enqueued, so a file type is    *)
(* tried only after every file type of higher priority had no accepted    *)
(* match or a failed enqueue; the match of a file type is the first       *)
(* accepted one of that file type, whatever the scores of the files of    *)
(* other types; at most one record is enqueued per call.                   *)
Rank(name) ==
    1 + Cardinality({i \in DOMAIN qprofile :
                        /\ qprofile[i].allowed
                        /\ \E j \in 1..(i - 1) : qprofile[j].name = name})

Candidates(files, filetype) == {i \in DOMAIN files : files[i].ext = filetype}

MatcherAccepts(response, filetype) ==
    /\ Candidates(response.files, filetype) # {}
    /\ response.username \notin ignored_users
    /\ \E i \in Candidates(response.files, filetype) :
          response.files[i].score >= minimum_match_ratio

BestCandidate(response, filetype) ==
    LET c == Candidates(response.files, filetype)
    IN response.files[CHOOSE i \in c :
                        /\ \A j \in c : response.files[j].score <= response.files[i].score
                        /\ \A j \in c : j < i => response.files[j].score < response.files[i].score]

(* The directory of response i as attempt a hands it to the matcher: the  *)
(* cached listing of the user, or the listing fetched by this attempt     *)
Offered(a, i) ==
    [username |-> search_results[i].username,
     files |-> IF search_results[i].username \in DOMAIN a.cache
               THEN a.cache[search_results[i].username]
               ELSE search_results[i].files]

AcceptedAt(a) ==
    {i \in DOMAIN search_results :
        /\ search_results[i].username \in a.readable
        /\ MatcherAccepts(Offered(a, i), a.filetype)}

C11_FirstFiletypeWins ==
    /\ Len(rec) <= 1
    /\ \A i \in DOMAIN attempts :
         LET a == attempts[i]
         IN /\ Rank(a.filetype) = i
            /\ \A j \in 1..(i - 1) : ~attempts[j].enqueued
            /\ a.found <=> AcceptedAt(a) # {}
            /\ a.found =>
                 \E u \in AcceptedAt(a) :
                    /\ \A v \in AcceptedAt(a) : u <= v
                    /\ a.username = search_results[u].username
                    /\ a.file = BestCandidate(Offered(a, u), a.filetype)
            /\ a.enqueued => (a.found /\ i = Len(attempts) /\ Len(rec) = 1)
    /\ Len(rec) = 1 => (attempts # <<>> /\ attempts[Len(attempts)].enqueued)

C11_Witness ==
    /\ spc = "done"
    /\ Len(attempts) = 1
    /\ attempts[1].enqueued
    /\ attempts[1].file.score = 1
    /\ \E i \in DOMAIN search_results : \E f \in DOMAIN search_results[i].files :
          /\ search_results[i].files[f].ext # attempts[1].filetype
          /\ search_results[i].files[f].score > 1
          /\ search_results[i].username \notin ignored_users
          /\ Rank(search_results[i].files[f].ext) = 2
          /\ qprofile[1].allowed

(* C12: the matcher returns a file exactly when the files of the requested *)
(* extension are not empty, the peer is not an ignored user and the best  *)
(* score among them reaches the minimum ratio, and the file returned is   *)
(* the first one of best score; no file of an ignored user is submitted   *)
(* for transfer or put in the grab list.                                   *)
C12_MatcherAcceptance ==
    /\ \A i \in DOMAIN search_results : \A filetype \in Exts :
         LET response == search_results[i]
             result == book_match(response.files, response.username, filetype)
         IN /\ result # NoFile <=> MatcherAccepts(response, filetype)
            /\ result # NoFile => result = BestCandidate(response, filetype)
    /\ \A i \in DOMAIN attempts :
         attempts[i].found =>
            /\ attempts[i].username \notin ignored_users
            /\ attempts[i].file.ext = attempts[i].filetype
            /\ attempts[i].file.score >= minimum_match_ratio

C12_Witness ==
    /\ spc = "done"
    /\ ignored_users = {1}
    /\ attempts # <<>>
    /\ Len(search_results) = 2
    /\ \E f \in DOMAIN search_results[1].files :
          /\ search_results[1].files[f].ext = attempts[1].filetype
          /\ search_results[1].files[f].score >= minimum_match_ratio
    /\ attempts[1].readable = {1, 2}
    /\ attempts[1].enqueued
    /\ attempts[1].username = 2

(* C13: once the searches of a target are over, a second search was       *)
(* issued exactly when the first one returned no response and the title   *)
(* contains ':'; the first query is 'author - title' and the second one   *)
(* 'author - ' followed by the text before the first colon without the    *)
(* spaces around it; there are at most two searches and the candidates    *)
(* are the responses of the last one.                                     *)
BeforeFirstColon(title, text) ==
    \E p \in DOMAIN title :
        /\ title[p] = ":"
        /\ \A q \in 1..(p - 1) : title[q] # ":"
        /\ \E a \in 1..p, b \in 0..(p - 1) :
              /\ text = SubSeq(title, a, b)
              /\ \A q \in 1..(a - 1) : title[q] = " "
              /\ \A q \in (b + 1)..(p - 1) : title[q] = " "
              /\ text # <<>> => (text[1] # " " /\ text[Len(text)] # " ")

C13_FallbackSearch ==
    /\ Len(searches) <= 2
    /\ searches # <<>> =>
         /\ searches[1].query = <<targets[1].author_name, " - ", book_title>>
         /\ search_results = searches[Len(searches)].responses
    /\ (spc \in {"match", "done"} /\ searches # <<>>) =>
         (Len(searches) = 2 <=>
             (searches[1].responses = <<>> /\ \E p \in DOMAIN book_title : book_title[p] = ":"))
    /\ Len(searches) = 2 =>
         /\ searches[2].query[1] = targets[1].author_name
         /\ searches[2].query[2] = " - "
         /\ BeforeFirstColon(book_title, searches[2].query[3])

C13_Witness ==
    /\ spc = "done"
    /\ book_title = <<"a", " ", ":", "b">>
    /\ Len(searches) = 2
    /\ searches[2].query = <<1, " - ", <<"a">>>>
    /\ attempts # <<>>
    /\ attempts[1].enqueued

(* C14: a target whose title contains, whatever the case of the letters,  *)
(* a non-empty word of the blacklist setting fails without any search,    *)
(* directory listing or enqueue and without a change to the grab list;    *)
(* run_workflow counts it as one failure and goes on.                      *)
CaseEq(c, d) == Lower(c) = Lower(d)

TitleHasBlacklistedWord ==
    \E a \in DOMAIN title_blacklist, b \in DOMAIN title_blacklist :
        /\ a <= b
        /\ \A i \in a..b : title_blacklist[i] # ","
        /\ a = 1 \/ title_blacklist[a - 1] = ","
        /\ b = Len(title_blacklist) \/ title_blacklist[b + 1] = ","
        /\ \E o \in 0..(Len(book_title) - (b - a + 1)) :
              \A i \in a..b : CaseEq(book_title[o + i - a + 1], title_blacklist[i])

C14_BlacklistedFailsOnce ==
    (spc # "none" /\ TitleHasBlacklistedWord) =>
        /\ searches = <<>>
        /\ attempts = <<>>
        /\ search_cache = <<>>
        /\ deleted = <<>>
        /\ grab_list = <<>>
        /\ wf_failed_download <= 1
        /\ spc = "done" => (wpc = "failed" \/ wf_failed_download = 1)

(* The records whose file has been validated *)
Validated == {r \in DOMAIN match : match[r] # "none"}

(* The file type of a record as the claims name it: what follows the last *)
(* dot of the file name, whatever its case                                *)
IsMobi(r) == Extension(rec[r].filename) \in {"azw3", "mobi"}
IsEpub(r) == Extension(rec[r].filename) = "epub"

(* C15: a mobi or azw3 file is accepted if and only if an ISBN was read    *)
(* from it, the lookup of that ISBN on the library service returned a       *)
(* result and the first result is the expected book; a read error, a        *)
(* missing ISBN, a lookup error and an empty lookup each reject it.         *)
C15_MobiAcceptance ==
    \A r \in Validated :
      IsMobi(r) =>
        (match[r] = "True" <=>
           /\ rec[r].meta.read_ok
           /\ rec[r].meta.isbn # 0
           /\ lookups[r].called
           /\ lookups[r].ok
           /\ lookups[r].ids # <<>>
           /\ lookups[r].ids[1] = rec[r].bookId)

C15_Witness ==
    \E r \in Validated :
      /\ IsMobi(r)
      /\ match[r] = "True"
      /\ Len(lookups[r].ids) = 1
      /\ handled[r] = "moved"

(* C16: an epub file whose title was read is accepted if and only if the   *)
(* raw similarity is above 0.8, or the normalized similarity is above 0.85, *)
(* or the word overlap (intersection over union) is above 0.7, each         *)
(* strictly; without a title, or on a read error, it is rejected.           *)
C16_EpubAcceptance ==
    \A r \in Validated :
      IsEpub(r) =>
        LET m == rec[r].meta IN
          IF m.read_ok /\ m.title_found
          THEN match[r] = "True" <=>
                 \/ m.diff > 80
                 \/ m.normalized_diff > 85
                 \/ (m.word_union > 0 /\ 10 * m.word_intersection > 7 * m.word_union)
          ELSE match[r] = "False"

C16_Witness ==
    \E r \in Validated :
      /\ IsEpub(r)
      /\ rec[r].meta.read_ok /\ rec[r].meta.title_found
      /\ rec[r].meta.diff = 80
      /\ rec[r].meta.normalized_diff = 85
      /\ rec[r].meta.word_intersection = 7 /\ rec[r].meta.word_union = 10
      /\ match[r] = "False"
      /\ handled[r] = "rejected"

(* C17: a file that is neither azw3, mobi nor epub is accepted whatever its *)
(* metadata, and no lookup is made on the library service for it.           *)
C17_OtherTypeAccepted ==
    \A r \in Validated :
      (~IsMobi(r) /\ ~IsEpub(r)) => (match[r] = "True" /\ ~lookups[r].called)

C17_Witness ==
    \E r \in Validated :
      /\ rec[r].filename = <<"x", "epub", "txt">>
      /\ ~rec[r].meta.read_ok
      /\ match[r] = "True"
      /\ handled[r] = "moved"

(* The loop over the grab list is over and sync is enabled *)
Organized == ipc \in {"quarantine", "results", "returned"} /\ ~disable_sync

Submitted == ipc \in {"results", "returned"} /\ ~disable_sync

FailedItself(r) == handled[r] \in {"missing", "rejected", "error"}

(* C18: a record that fails validation, whose source file is missing or    *)
(* whose processing raises does not stop the others: once the loop is over  *)
(* every record has been handled, every record that did not fail before its *)
(* validation has been validated, every accepted record went through the    *)
(* organisation, and an import command was requested for the directory of   *)
(* every record that was moved.                                             *)
C18_FailureIsolated ==
    /\ Organized =>
         \A r \in DOMAIN rec :
           /\ handled[r] # "none"
           /\ handled[r] \notin {"missing", "error"} => match[r] # "none"
           /\ match[r] = "True" =>
                handled[r] \in {"moved", "left", "mkdir failed", "move failed"}
    /\ Submitted =>
         \A r \in DOMAIN rec : handled[r] = "moved" => AuthorDir(r) \in posted

C18_Witness ==
    /\ ipc = "returned"
    /\ ~disable_sync
    /\ Len(grab_list) = 2
    /\ FailedItself(grab_list[1])
    /\ handled[grab_list[2]] = "moved"
    /\ AuthorDir(grab_list[2]) \in posted
    /\ commands # <<>>

(* The failed imports have all been handled, the import commands are next *)
QuarantineOver == ipc = "quarantine" /\ idx > Len(failed_imports) /\ ~disable_sync

(* The downloaded file of a record, wherever it is now *)
Downloaded(r) == {f \in disk_files : f.r = r}

(* C19: once the grab list has been organized (and no filesystem or        *)
(* library call raised), the downloaded file of every record is in the      *)
(* directory of its author if the validation accepted it and in             *)
(* failed_imports otherwise; none is still in its source folder.            *)
C19_NoFileLeftBehind ==
    (QuarantineOver /\ io_faults = 0) =>
      \A r \in DOMAIN rec :
        \A f \in Downloaded(r) :
          IF match[r] = "True" THEN f.at = Download(AuthorDir(r))
          ELSE f.at[1] = "failed_imports"

(* The destination the claim prescribes for a move of base into a         *)
(* quarantine area that holds the entries of before                        *)
SmallestUnused(base, dest, before) ==
    \E n \in 1..(Cardinality(before) + 1) :
      /\ dest = Suffixed(base, n)
      /\ \A j \in 1..(n - 1) : Suffixed(base, j) \in before

(* C20: a move into failed_imports never goes to an entry that exists: the *)
(* destination is the base name if it is unused, otherwise the base name    *)
(* with the smallest unused suffix _1, _2, ..., and the destinations of all *)
(* the moves of a run are pairwise distinct.                                *)
C20_QuarantineNamesDistinct ==
    /\ \A i \in DOMAIN quarantine_moves :
         LET m == quarantine_moves[i] IN
           /\ m.dest \notin m.before
           /\ IF m.base \notin m.before THEN m.dest = m.base
              ELSE SmallestUnused(m.base, m.dest, m.before)
    /\ \A i, j \in DOMAIN quarantine_moves :
         i # j => quarantine_moves[i].dest # quarantine_moves[j].dest

C20_Witness ==
    /\ Len(quarantine_moves) >= 2
    /\ quarantine_moves[1].base = <<"A">>
    /\ quarantine_moves[1].dest = <<"A", "_", "2">>
    /\ quarantine_moves[2].base = <<"A">>
    /\ quarantine_moves[2].dest = <<"A", "_", "3">>
    /\ quarantine_moves[1].moved /\ quarantine_moves[2].moved

(* The author directories that received an accepted file in this run *)
ReceivedAccepted == {AuthorDir(r) : r \in {x \in DOMAIN rec : handled[x] = "moved"}}

(* C21: once the import commands have been submitted (and no filesystem or *)
(* library call raised), a command was requested for every author          *)
(* directory that received an accepted file and for no other directory,    *)
(* each once.                                                              *)
C21_OneCommandPerAuthorDir ==
    (Submitted /\ io_faults = 0) =>
      /\ posted = ReceivedAccepted
      /\ \A i, j \in DOMAIN commands : i # j => commands[i] # commands[j]

(* The positions of the allowed entries of a profile *)
AllowedAt(items) == {i \in DOMAIN items : items[i].allowed}

(* C22: gen_allowed_filetypes returns the lower-cased names of the allowed *)
(* entries of the profile and nothing else, the last allowed entry first   *)
(* and the first one last; [epub allowed, pdf allowed, mobi not allowed]    *)
(* gives [pdf, epub]; the profile it was given is left as it was.          *)
C22_AllowedFiletypes ==
    /\ [](fn_args # <<>> /\ fn_args.fn = "gen_allowed_filetypes" /\ fn_ret # <<>> =>
            LET items == fn_args.items
                out == fn_ret[1]
            IN /\ Len(out) = Cardinality(AllowedAt(items))
               /\ \A i \in AllowedAt(items) :
                    out[1 + Cardinality({j \in AllowedAt(items) : j > i})]
                      = LowerWord(items[i].name)
               /\ items = <<[name |-> "epub", allowed |-> TRUE],
                            [name |-> "pdf", allowed |-> TRUE],
                            [name |-> "mobi", allowed |-> FALSE]>>
                    => out = <<"pdf", "epub">>)
    /\ [][fn_args' = fn_args]_vars

C22_Witness ==
    /\ fn_args # <<>>
    /\ fn_args.fn = "gen_allowed_filetypes"
    /\ fn_args.items = <<[name |-> "EPUB", allowed |-> TRUE],
                         [name |-> "pdf", allowed |-> TRUE],
                         [name |-> "mobi", allowed |-> FALSE]>>
    /\ fn_ret = <<<<"pdf", "epub">>>>

(* The positions of the files of the requested type *)
OfType(slskd_files, filetype) ==
    {i \in DOMAIN slskd_files : slskd_files[i].ext = filetype}

(* C23: among the files of the requested type book_match selects one whose *)
(* score is the maximum, and of several with the maximum score the one     *)
(* that comes first in the list.                                           *)
C23_FirstOfTheBest ==
    (fn_args # <<>> /\ fn_args.fn = "book_match" /\ fn_ret # <<>>) =>
      LET files == fn_args.slskd_files
          cands == OfType(files, fn_args.filetype)
          chosen == fn_ret[1]
      IN IF cands = {} THEN chosen = NoFile
         ELSE /\ chosen.name \in cands
              /\ chosen = files[chosen.name]
              /\ \A j \in cands :
                   /\ files[j].score <= chosen.score
                   /\ files[j].score = chosen.score => chosen.name <= j

C23_Witness ==
    /\ fn_args # <<>>
    /\ fn_args.fn = "book_match"
    /\ Len(fn_args.slskd_files) = 3
    /\ OfType(fn_args.slskd_files, fn_args.filetype) = {1, 2, 3}
    /\ fn_args.slskd_files[1].score = 1
    /\ fn_args.slskd_files[2].score = 2
    /\ fn_args.slskd_files[3].score = 2
    /\ fn_ret # <<>>
    /\ fn_ret[1].name = 2

(* C24: the score of a file is its best pattern ratio plus the bonus, the  *)
(* bonus being the title_bonus of the configuration when the title is      *)
(* contained in the file name and 0 otherwise; with a minimum of 0.5 a     *)
(* contained file of ratio 0.25 is accepted (0.55) under a bonus of 0.3    *)
(* and rejected (0.45) under a bonus of 0.2.                               *)
C24_ConfiguredBonus ==
    (fn_args # <<>> /\ fn_args.fn = "final_ratio" /\ fn_ret # <<>>) =>
      /\ Same(fn_ret[1].final_ratio,
              Hundredths(fn_args.max_ratio
                         + (IF fn_args.contained THEN fn_args.title_bonus ELSE 0)))
      /\ (fn_args.max_ratio = 25 /\ fn_args.contained /\ fn_args.minimum = 50) =>
           (fn_ret[1].accepted <=> fn_args.title_bonus = 30)

(* C25: for the same title, author, file type and minimum ratio, a file    *)
(* name and the same name in another case, or with underscores for its     *)
(* spaces, have the same score.                                            *)
C25_ScoreIgnoresCaseAndUnderscores ==
    (fn_args # <<>> /\ fn_args.fn = "score" /\ fn_ret # <<>>) =>
      Same(fn_ret[1].score, fn_ret[1].variant_score)

(* C26: normalize_for_matching applied to what it returned returns the same. *)
C26_NormalizeIdempotent ==
    (fn_args # <<>> /\ fn_args.fn = "normalize_for_matching" /\ Len(fn_ret) = 2) =>
      fn_ret[2] = fn_ret[1]

C26_Witness ==
    /\ fn_args # <<>>
    /\ fn_args.fn = "normalize_for_matching"
    /\ fn_args.text = <<"_", "A", "-", "_", "a">>
    /\ fn_ret = << <<"a", " ", "a">>, <<"a", " ", "a">> >>

(* The grab list download_book was called with *)
GrabListBefore == fn_args.grab_list

InDownload == fn_args # <<>> /\ fn_args.fn = "download_book"

(* C27: download_book appends a record exactly when the enqueue returned   *)
(* at least one tracked file, and then returns True; every record of the   *)
(* grab list has at least one tracked file and each of them has a transfer *)
(* id; the record just appended has no rejection retry, no error and the   *)
(* time of its creation as start time.                                     *)
C27_RecordIffTracked ==
    InDownload =>
      /\ dpc # "returned" => grab_list = GrabListBefore
      /\ dpc = "returned" =>
           /\ grabbed = "True" <=> tracked # <<>>
           /\ IF tracked # <<>>
              THEN /\ Len(grab_list) = Len(GrabListBefore) + 1
                   /\ SubSeq(grab_list, 1, Len(GrabListBefore)) = GrabListBefore
                   /\ LET b == rec[grab_list[Len(grab_list)]]
                      IN /\ b.rejected_retries = 0
                         /\ b.error_count = 0
                         /\ b.count_start = now
                         /\ Len(b.files) = Len(tracked)
                         /\ \A f \in DOMAIN b.files : b.files[f].id = tracked[f].id
              ELSE grab_list = GrabListBefore
      /\ \A i \in DOMAIN grab_list :
           /\ Len(rec[grab_list[i]].files) >= 1
           /\ \A f \in DOMAIN rec[grab_list[i]].files :
                "id" \in DOMAIN rec[grab_list[i]].files[f]

C27_Witness ==
    /\ InDownload
    /\ dpc = "returned"
    /\ grabbed = "True"
    /\ Len(GrabListBefore) = 1
    /\ Len(grab_list) = 2
    /\ Len(listings) = 3
    /\ Len(rec[grab_list[2]].files) = 2
    /\ rec[grab_list[2]].count_start = now
    /\ now >= 3

(* The first attempt that found a file, 0 if none did *)
FirstFound ==
    IF \E i \in DOMAIN listings : listings[i].found > 0
    THEN CHOOSE i \in DOMAIN listings :
           listings[i].found > 0 /\ \A j \in 1..(i - 1) : listings[j].found = 0
    ELSE 0

(* C28: one call of slskd_do_enqueue asks for the download listing at most *)
(* 4 times; it returns the tracked files at the first attempt that finds   *)
(* one and asks no more, it returns None when 4 attempts found none,       *)
(* raising attempts included; and the call always returns.                 *)
C28_AtMostFourAttempts ==
    /\ [](InDownload =>
            /\ Len(listings) <= 4
            /\ FirstFound # 0 =>
                 /\ FirstFound = Len(listings)
                 /\ dpc \in {"enqueued", "returned"}
                 /\ Len(tracked) = listings[FirstFound].found
            /\ (FirstFound = 0 /\ dpc \in {"enqueued", "returned"}) =>
                 /\ tracked = <<>>
                 /\ submit_calls = <<"accepted">> => Len(listings) = 4)
    /\ <>(dpc = "returned")

C28_Witness ==
    /\ InDownload
    /\ dpc = "returned"
    /\ Len(listings) = 4
    /\ listings[2].raised
    /\ listings[4].raised
    /\ FirstFound = 0
    /\ tracked = <<>>
    /\ grabbed = "False"

(* C29: when the submission of the files raises, nothing is submitted      *)
(* again and the download listing is never asked for; download_book        *)
(* returns False and the grab list is what it was.                         *)
C29_SubmitRaisesFailsAtOnce ==
    (InDownload /\ submit_calls # <<>> /\ submit_calls[1] = "raised") =>
      /\ submit_calls = <<"raised">>
      /\ listings = <<>>
      /\ tracked = <<>>
      /\ grab_list = GrabListBefore
      /\ dpc \in {"enqueued", "returned"}
      /\ dpc = "returned" => grabbed = "False"

C29_Witness ==
    /\ InDownload
    /\ submit_calls = <<"raised">>
    /\ dpc = "returned"
    /\ grabbed = "False"
    /\ listings = <<>>
    /\ Len(grab_list) = 1

(* The statuses of record r have just been refreshed and a query failed *)
QueryFailed(b) == \E f \in DOMAIN b.files : b.files[f].status = None

(* C30: on the tick where the status query of at least one file of a       *)
(* record fails, the error count of the record goes up by exactly one, the *)
(* record stays in the grab list and the failure counter stays; a record   *)
(* goes to cancellation only on a timeout or on a file in a problem state, *)
(* never because a query failed or because of its error count.             *)
C30_QueryFailureCountsOnly ==
    [][/\ (pc = "visit" /\ pc' = "decide") =>
            /\ rec'[cur'].error_count =
                 rec[cur'].error_count + (IF QueryFailed(rec'[cur']) THEN 1 ELSE 0)
            /\ grab_list' = grab_list
            /\ failed_download' = failed_download
       /\ (pc = "decide" /\ pc' = "cancel") =>
            \/ StalledTimedOut(rec[cur])
            \/ RemoteQueueTimedOut(rec[cur], remote_queued_count)
            \/ problems # <<>>
       /\ (pc = "decide" /\ \A f \in DOMAIN rec[cur].files : rec[cur].files[f].status = None
             /\ ~StalledTimedOut(rec[cur])) =>
            /\ pc' # "cancel"
            /\ grab_list' = grab_list
            /\ failed_download' = failed_download]_vars

C30_Witness ==
    /\ pc = "decide"
    /\ wpc = "none"
    /\ Len(rec[cur].files) = 2
    /\ rec[cur].files[1].status = None
    /\ rec[cur].files[2].status = InProgress
    /\ rec[cur].error_count = 1
    /\ cur \in Range(grab_list)
    /\ failed_download = 0


----------------------------------------------------------------------------
(* Number of files of b whose last known state is 'Queued, Remotely' *)
QueuedRemotelyCount(b) ==
    Cardinality({f \in DOMAIN b.files : b.files[f].status = QueuedRemotely})

(* The visit of the record ends in an abort before the record is counted   *)
(* unfinished and before its problems are looked at (lines 53-67)           *)
TimeoutAbort ==
    /\ pc = "decide"
    /\ pc' = "cancel"
    /\ k' = 1
    /\ UNCHANGED <<grab_list, rec, remote, enqueue_calls, unfinished, failed_download, cur>>

----------------------------------------------------------------------------
(* monitor_downloads entered with one record of three files, the third of  *)
(* which the service has already completed when the monitor starts.        *)
InitRejection ==
    /\ grab_list = <<1>>
    /\ rec = <<NewRecord(<<1, 2, 3>>, 0, 1, 1)>>
    /\ remote = <<<<QueuedRemotely, QueuedRemotely, Succeeded>>>>
    /\ enqueue_calls = <<[f \in 1..3 |-> 0]>>
    /\ dir_exists = <<TRUE>>
    /\ cancelled = {}
    /\ fault_budget = MaxFaults
    /\ now = 0
    /\ failed_download = 0
    /\ unfinished = 0
    /\ todo = <<>>
    /\ cur = 0
    /\ book_done = FALSE
    /\ problems = <<>>
    /\ remote_queued_count = 0
    /\ k = 0
    /\ pc = "start"
    /\ observed_done = {}
    /\ NotInBatch
    /\ NotInSearch
    /\ NotInImport
    /\ NotInLater

SpecRejection == InitRejection /\ [][NextMonitor]_vars

(* The problems of the visited record are handled: it has a rejected file, *)
(* not every file is a problem, and no timeout applies                     *)
PartlyRejected ==
    /\ pc = "decide"
    /\ ~StalledTimedOut(rec[cur])
    /\ ~RemoteQueueTimedOut(rec[cur], remote_queued_count)
    /\ \E i \in DOMAIN problems : rec[cur].files[problems[i]].status = Rejected
    /\ Len(problems) < Len(rec[cur].files)

(* No other abort rule applies on this step: every re-submission made is   *)
(* accepted and no file is at its last retry                               *)
OnlyRejectionRule ==
    /\ \A f \in DOMAIN rec[cur].files : rec[cur].files[f].retry < MaxRetry - 1
    /\ \A f \in DOMAIN rec[cur].files :
         enqueue_calls'[cur][f] # enqueue_calls[cur][f] =>
             rec'[cur].files[f].id # rec[cur].files[f].id

(* C32: on a tick where a record has a rejected file but not every file is *)
(* a problem, rejected_retries is incremented (by one) and the record is   *)
(* aborted exactly when the incremented value exceeds 1.2 times the number *)
(* of its files.                                                           *)
C32_RejectionLimit ==
    [][(PartlyRejected /\ OnlyRejectionRule) =>
          /\ pc' = "cancel" <=>
                (rec[cur].rejected_retries + 1) * 10 > 12 * Len(rec[cur].files)
          /\ pc' # "cancel" =>
                rec'[cur].rejected_retries = rec[cur].rejected_retries + 1]_vars

(* C32, the divergence: a record of three files, two of them rejected, is  *)
(* aborted with rejected_retries at 3, which is not above 3.6              *)
C32_EarlyAbort ==
    /\ pc = "cancel"
    /\ k = 1
    /\ Len(rec[cur].files) = 3
    /\ rec[cur].rejected_retries = 3
    /\ Len(problems) = 2
    /\ rec[cur].files[1].retry = 2
    /\ rec[cur].files[2].retry = 1


----------------------------------------------------------------------------
(* search_and_download for one target, over the titles, the delete_searches *)
(* setting, the states the service reports and the responses: one file type *)
(* is allowed, no user is ignored and every score reaches the minimum.      *)
InitPoll ==
    InitSearchWith(Titles, {<<>>},
                   {<<[name |-> "mobi", allowed |-> FALSE], [name |-> "epub", allowed |-> TRUE]>>},
                   {{}}, {1}, {FALSE}, BOOLEAN)

SpecPoll == InitPoll /\ [][NextMatch]_vars

(* The service reports a state other than 'InProgress' *)
ReportsOver == PollState /\ spc' = "fetch"

(* The steps of the call are taken, and as long as the state of a search is *)
(* polled the service eventually reports that the search is over            *)
LivePoll == SpecPoll /\ WF_vars(NextMatch) /\ WF_vars(ReportsOver)

(* The searches whose last reported state, if any, is 'InProgress' *)
Unfinished == {i \in DOMAIN searches : searches[i].state \in {"none", "InProgress"}}

(* search_and_download has returned or has been left by an exception *)
SearchEnded == spc \in {"done", "raised"}

(* C33: the responses of a search are fetched only after a poll reported a *)
(* state other than 'InProgress' for it: a search not yet reported over is  *)
(* the one being polled, has no responses and the call has not gone past    *)
(* the polling, so a call never returns while it is so; a poll answered     *)
(* 'InProgress' can always be followed by another one; and when the service *)
(* eventually reports each search over, the call comes to its end.          *)
C33_PollUntilOver ==
    /\ [](\A i \in Unfinished :
            /\ i = Len(searches)
            /\ spc \in {"poll", "raised"}
            /\ searches[i].responses = <<>>)
    /\ [](spc = "fetch" => searches[Len(searches)].state = "Completed")
    /\ [](spc = "poll" => ENABLED (PollState /\ spc' = "poll"))
    /\ [][spc = "poll" => (spc' \in {"poll", "fetch", "raised"})]_vars
    /\ [][(spc = "poll" /\ spc' = "fetch") => searches'[Len(searches)].state # "InProgress"]_vars
    /\ <>SearchEnded

(* The fallback search is still polled after two polls answered 'InProgress' *)
C33_Witness ==
    /\ spc = "poll"
    /\ Len(searches) = 2
    /\ searches[1].state = "Completed"
    /\ searches[2].state = "InProgress"
    /\ polls = 0
    /\ search_results = <<>>


(* Number of delete requests received for search i *)
Deletions(i) == Cardinality({j \in DOMAIN deleted : deleted[j] = i})

(* C34: with delete_searches set, when search_and_download has returned    *)
(* every search it issued (the original one and the fallback one) has been *)
(* deleted on the service exactly once, whether a download was enqueued or *)
(* not, and no search is ever deleted twice; with delete_searches unset no  *)
(* search is ever deleted.                                                 *)
C34_SearchesDeleted ==
    /\ ~delete_searches => deleted = <<>>
    /\ \A j \in DOMAIN deleted : deleted[j] \in DOMAIN searches
    /\ \A i \in DOMAIN searches : Deletions(i) <= 1
    /\ (delete_searches /\ spc = "done") =>
          \A i \in DOMAIN searches : Deletions(i) = 1
    /\ (delete_searches /\ Len(searches) = 2) => Deletions(1) = 1

C34_Witness ==
    /\ spc = "done"
    /\ delete_searches
    /\ Len(searches) = 2
    /\ deleted = <<1, 2>>
    /\ attempts # <<>>
    /\ attempts[Len(attempts)].enqueued
    /\ grab_list # <<>>


(* C35: within one call a failed enqueue leaves the cached directory       *)
(* listings as they were fetched: for every file type tried, the files     *)
(* handed to the matcher for a user's directory are the files the listing  *)
(* of that directory contained when it was fetched.                        *)
C35_CachedListingsKept ==
    \A i \in DOMAIN attempts : \A j \in DOMAIN search_results :
        Offered(attempts[i], j).files = search_results[j].files

(* C35, the divergence: after a failed enqueue of an epub of user 1 the    *)
(* matcher is handed that single file for the next file type and finds no  *)
(* mobi, although the listing of user 1 holds an acceptable one            *)
C35_ListingReplaced ==
    /\ Len(attempts) = 2
    /\ attempts[1].found /\ ~attempts[1].enqueued
    /\ attempts[1].username = 1
    /\ attempts[2].cache[1] = <<attempts[1].file>>
    /\ ~attempts[2].found
    /\ MatcherAccepts(search_results[1], attempts[2].filetype)
    /\ 1 \in attempts[2].readable


----------------------------------------------------------------------------
(* rsoul/download.py slskd_do_enqueue: the lookup of the transfer of a     *)
(* submitted file in the download listing of the peer, as download_book    *)
(* makes it and as monitor_downloads makes it for a re-submission.         *)
(* Paths are sequences of characters, "\\" the separator.                  *)

MaxPath == 3

PathChars == {"d", "e", "\\"}

Paths == UNION {[1..n -> PathChars] : n \in 1..MaxPath}

(* x.split("\\")[-1] *)
Basename(path) == SplitOn(path, "\\")[Len(SplitOn(path, "\\"))]

(* download.py lines 119-121: a file name without "\\" gets the directory *)
FullFilename(file_dir, filename) ==
    IF Find(filename, "\\") = 0 THEN file_dir \o <<"\\">> \o filename ELSE filename

(* download.py line 33 *)
DirectoryMatches(directory, file_dir) ==
    directory = Basename(file_dir) \/ directory = file_dir

(* download.py lines 36-40 *)
FilenameMatches(slskd_filename, target_filename) ==
    slskd_filename = target_filename \/ slskd_filename = Basename(target_filename)

(* download.py lines 30-47: downloads, the tracked files found for one    *)
(* submitted file in the listing, each with the id of its listing entry   *)
FoundIn(download_list, target_filename, file_dir) ==
    {d \in DOMAIN download_list :
        /\ DirectoryMatches(download_list[d].directory, file_dir)
        /\ FilenameMatches(download_list[d].filename, target_filename)}

(* download.py line 124: download_book passes the full remote directory *)
OriginalDir(file_dir) == file_dir

(* download.py line 131 and workflow.py line 108: monitor_downloads passes *)
(* book_download["dir"], the last component of the remote directory        *)
RequeueDir(file_dir) == Basename(file_dir)

(* The listings: one directory holding one transfer *)
DownloadLists(file_dir, filename) ==
    {<<[directory |-> d, filename |-> n]>> :
        d \in Paths,
        n \in {filename, FullFilename(file_dir, filename), <<"g">>}}

InitRequeue ==
    /\ \E file_dir \in Paths :
         fn_args \in [fn : {"slskd_do_enqueue"}, file_dir : {file_dir},
                      filename : {<<"f">>},
                      download_list : DownloadLists(file_dir, <<"f">>)]
    /\ fn_ret = <<>>
    /\ submit_calls = <<>>
    /\ listings = <<>>
    /\ attempt = 0
    /\ tracked = <<>>
    /\ grabbed = "none"
    /\ dpc = "none"
    /\ NothingRuns

(* The file is looked up in the same listing by the original enqueue and *)
(* by a re-submission                                                    *)
CallLookups ==
    /\ fn_args.fn = "slskd_do_enqueue"
    /\ fn_ret = <<>>
    /\ LET target_filename == FullFilename(fn_args.file_dir, fn_args.filename)
       IN fn_ret' = <<[original |-> FoundIn(fn_args.download_list, target_filename,
                                            OriginalDir(fn_args.file_dir)) # {},
                       requeue |-> FoundIn(fn_args.download_list, target_filename,
                                           RequeueDir(fn_args.file_dir)) # {}]>>
    /\ UNCHANGED fn_args
    /\ UNCHANGED outside_call

NextRequeue == CallLookups

SpecRequeue == InitRequeue /\ [][NextRequeue]_vars

(* C36: whenever the original enqueue of a file, called with the full      *)
(* remote directory, finds the transfer of the file in a listing, the      *)
(* re-submission of monitor_downloads, called with the last component of   *)
(* the directory, finds it in the same listing.                            *)
C36_RequeueFindsTransfer ==
    (fn_ret # <<>> /\ fn_ret[1].original) => fn_ret[1].requeue

(* C36, the divergence: the listing names the directory by its full path *)
C36_FullPathListing ==
    /\ fn_ret # <<>>
    /\ fn_args.file_dir = <<"d", "\\", "e">>
    /\ fn_args.download_list[1].directory = <<"d", "\\", "e">>
    /\ fn_ret[1].original
    /\ ~fn_ret[1].requeue


----------------------------------------------------------------------------
(* monitor_downloads when every call of the service returns (a status      *)
(* query that raises is caught by slskd_download_status) and the clock     *)
(* advances between ticks.                                                 *)
CallsReturn ==
    \/ MonitorStart
    \/ Refresh
    \/ Timeout
    \/ Decide
    \/ Cancel
    \/ DeleteAndRemove
    \/ TickEnd

(* workflow.py line 139: time passes during the sleep between two ticks *)
ClockAdvances == TickEnd /\ now' > now

(* The grab lists of records of one file *)
InitReturning == InitMonitor /\ \A r \in DOMAIN rec : Len(rec[r].files) = 1

SpecReturning == InitReturning /\ [][CallsReturn]_vars

LiveMonitor == SpecReturning /\ WF_vars(CallsReturn) /\ SF_vars(ClockAdvances)

(* C37: monitor_downloads eventually returns; a record visited once its    *)
(* stalled timeout has elapsed is aborted on that tick without being       *)
(* counted unfinished, so at the end of a tick every record left in the    *)
(* grab list is younger than stalled_timeout, and the tick that starts     *)
(* with every record stalled ends with an empty list and the return.       *)
C37_MonitorReturns ==
    /\ <>(pc = "returned")
    /\ [][(pc = "decide" /\ (now - rec[cur].count_start) >= StalledTimeout) =>
             (pc' = "cancel" /\ unfinished' = unfinished)]_vars
    /\ []((pc = "visit" /\ todo = <<>>) =>
             \A i \in DOMAIN grab_list :
                 (now - rec[grab_list[i]].count_start) < StalledTimeout)
    /\ []((pc = "visit" /\ todo = <<>> /\ now >= StalledTimeout) =>
             (grab_list = <<>> /\ unfinished = 0))
    /\ [](pc = "returned" => (grab_list = <<>> \/ unfinished = 0))

C37_Witness ==
    /\ pc = "returned"
    /\ now = StalledTimeout
    /\ Len(rec) = 2
    /\ grab_list = <<>>
    /\ failed_download = 2
    /\ \A r \in 1..2 : rec[r].files[1].status = InProgress
    /\ \A r \in 1..2 : dir_exists[r] = FALSE


----------------------------------------------------------------------------
(* run_workflow when every call returns: the transfers end by completion *)
(* or by a timeout of the monitor.                                       *)
InitTally == InitWorkflowWith(0, BOOLEAN)

NextTally ==
    \/ SearchAndDownload
    \/ GrabFailed
    \/ CallMonitor
    \/ CallsReturn
    \/ ReturnTally

SpecTally == InitTally /\ [][NextTally]_vars

(* The records created for target t, and those of them in the grab list *)
RecordsOf(t) == {r \in DOMAIN rec : rec[r].bookId = t}

Grabbed(t) == {i \in DOMAIN grab_list : grab_list[i] \in RecordsOf(t)}

(* C38: when run_workflow returns, failed_download plus grabbed_count is   *)
(* the number of download targets: every target has at most one record,    *)
(* the targets with a record in the grab list are the ones counted grabbed *)
(* (one record each) and every other target is counted failed, once.       *)
C38_TallyAddsUp ==
    wpc = "returned" =>
        /\ tally.failed_download + tally.grabbed_count = Len(targets)
        /\ \A t \in DOMAIN targets :
              Cardinality(RecordsOf(t)) <= 1 /\ Cardinality(Grabbed(t)) <= 1
        /\ tally.grabbed_count = Cardinality({t \in DOMAIN targets : Grabbed(t) # {}})
        /\ tally.failed_download = Cardinality({t \in DOMAIN targets : Grabbed(t) = {}})
        /\ tally.grabbed_count = Len(grab_list)

(* Two targets: the first failed in the search, the record of the second *)
(* was aborted by the monitor                                             *)
C38_Witness ==
    /\ wpc = "returned"
    /\ Len(targets) = 2
    /\ RecordsOf(1) = {}
    /\ RecordsOf(2) = {1}
    /\ grab_list = <<>>
    /\ tally = [failed_download |-> 2, grabbed_count |-> 0]


----------------------------------------------------------------------------
(* C39: with Readarr sync disabled, no step of process_imports changes    *)
(* anything but its own position, and its one step is the return: no file *)
(* is validated, moved or quarantined, no directory is created or         *)
(* removed, no import command is submitted, and the grab list keeps its   *)
(* contents and order.                                                    *)
C39_DisabledSyncChangesNothing ==
    [][disable_sync =>
         /\ ipc' = "returned"
         /\ UNCHANGED <<grab_list, rec, disk_files, dirs, quarantine, quarantine_moves,
                        failed_imports, match, lookups, handled, commands, posted,
                        idx>>]_vars

(* process_imports returned with sync disabled; two downloaded records in *)
(* an order that the sort by author would change                          *)
C39_Witness ==
    /\ ipc = "returned"
    /\ disable_sync
    /\ grab_list = <<1, 2>>
    /\ SortByAuthor(grab_list) # grab_list
    /\ \A r \in 1..2 : \E f \in disk_files : f.r = r
    /\ commands = <<>>
    /\ posted = {}
    /\ \A r \in 1..2 : match[r] = "none" /\ handled[r] = "none"


----------------------------------------------------------------------------
(* get_books with search_type "all" (search.py lines 226-267). The library *)
(* service answers every request as it likes: the request raises, or it    *)
(* returns a page of zero to page_size records.                            *)
MaxWanted == 2      \* totalRecords of the first answer
MaxPageSize == 2    \* config page_size
MaxPage == 3        \* the page numbers are counted 1..MaxPage and then again from 1

RecordIds == {1, 2}

Pages == UNION {[1..n -> RecordIds] : n \in 0..MaxPageSize}

outside_get_books == <<grab_list, rec, env, now, failed_download, unfinished, todo, locals,
                       k, pc, observed_done, batch, search_vars, import_vars,
                       download_vars, pure_vars>>

InitGetBooks ==
    /\ total_wanted = 0
    /\ wanted_records = <<>>
    /\ page = 0
    /\ gpc = "start"
    /\ fn_args = <<>>
    /\ fn_ret = <<>>
    /\ submit_calls = <<>>
    /\ listings = <<>>
    /\ attempt = 0
    /\ tracked = <<>>
    /\ grabbed = "none"
    /\ dpc = "none"
    /\ grab_list = <<>>
    /\ rec = <<>>
    /\ remote = <<>>
    /\ enqueue_calls = <<>>
    /\ dir_exists = <<>>
    /\ cancelled = {}
    /\ fault_budget = 0
    /\ now = 0
    /\ failed_download = 0
    /\ unfinished = 0
    /\ todo = <<>>
    /\ cur = 0
    /\ book_done = FALSE
    /\ problems = <<>>
    /\ remote_queued_count = 0
    /\ k = 0
    /\ pc = "idle"
    /\ observed_done = {}
    /\ NotInBatch
    /\ NotInSearch
    /\ NotInImport

(* search.py lines 232-233 and 238-243: the first request returns; its *)
(* records are not kept in "all" mode                                  *)
FirstRequest ==
    /\ gpc = "start"
    /\ \E total \in 0..MaxWanted : total_wanted' = total
    /\ wanted_records' = <<>>
    /\ page' = 1
    /\ gpc' = "loop"
    /\ UNCHANGED outside_get_books

(* search.py lines 232-236: the first request raises and [] is returned *)
FirstRequestRaises ==
    /\ gpc = "start"
    /\ gpc' = "returned"
    /\ UNCHANGED <<total_wanted, wanted_records, page>>
    /\ UNCHANGED outside_get_books

(* search.py line 250: page += 1 *)
NextPage(p) == IF p < MaxPage THEN p + 1 ELSE 1

(* search.py lines 244-247 and 250: the request for the page returns *)
PageReturns ==
    /\ gpc = "loop"
    /\ Len(wanted_records) < total_wanted
    /\ \E records \in Pages : wanted_records' = wanted_records \o records
    /\ page' = NextPage(page)
    /\ UNCHANGED <<total_wanted, gpc>>
    /\ UNCHANGED outside_get_books

(* search.py lines 244-249: the request for the page raises: break *)
PageRaises ==
    /\ gpc = "loop"
    /\ Len(wanted_records) < total_wanted
    /\ gpc' = "returned"
    /\ UNCHANGED <<total_wanted, wanted_records, page>>
    /\ UNCHANGED outside_get_books

(* search.py lines 244 and 267: the loop condition fails; return wanted_records *)
AllCollected ==
    /\ gpc = "loop"
    /\ Len(wanted_records) >= total_wanted
    /\ gpc' = "returned"
    /\ UNCHANGED <<total_wanted, wanted_records, page>>
    /\ UNCHANGED outside_get_books

NextGetBooks ==
    \/ FirstRequest
    \/ FirstRequestRaises
    \/ PageReturns
    \/ PageRaises
    \/ AllCollected

SpecGetBooks == InitGetBooks /\ [][NextGetBooks]_vars

(* The requests are answered and the code goes on; the service is free *)
(* to never raise                                                      *)
RequestsReturn == FirstRequest \/ PageReturns \/ AllCollected

LiveGetBooks == SpecGetBooks /\ WF_vars(RequestsReturn)

(* C40: get_books in "all" mode returns, whatever the library service *)
(* answers                                                            *)
C40_GetBooksTerminates == <>(gpc = "returned")

(* The loop asks for one more page after two pages without a record *)
C40_EmptyPages ==
    /\ gpc = "loop"
    /\ page = 3
    /\ total_wanted > 0
    /\ wanted_records = <<>>

====
